---- MODULE Spec2Model ----
(***************************************************************************)
(* Model of the batch experiment orchestrator (src/src/utils/experiment.py, *)
(* run_batch_experiment) and of the local model server helpers it calls     *)
(* (src/src/utils/llm_manager.py).                                          *)
(*                                                                          *)
(* The orchestrator is one sequential function.  Each action below is one   *)
(* stretch of its code between two loop heads; the outcome of every         *)
(* collaborator call made in that stretch (document loader, splitter,       *)
(* index builder, model factory, pipelines, progress and status sinks, the  *)
(* local model server) is an input of the action, drawn with \E.            *)
(*                                                                          *)
(* A model display name is modelled as the set of marker substrings it      *)
(* contains, so that the code's test  "Ollama" in name  is  Contains.       *)
(* Floating point parameters are written in tenths (7 stands for 0.7).      *)
(* A progress value min(current_step / total_steps, 1.0) is the pair        *)
(* <<numerator, denominator>> with the numerator capped at the denominator. *)
(***************************************************************************)
EXTENDS Integers, Sequences, FiniteSets, TLC

\* ------------------------------------------------------------------ bounds
MaxFaults == 2         \* most collaborator failures a run has to handle

\* --------------------------------------------------------- program constants
PollLimit == 10        \* start_ollama_server polls the health check 10 times

None == 0 - 1          \* Python's None for chunk_size / chunk_overlap / vectorstore

\* ------------------------------------------------------------------ inputs
OllamaMistral == {"Ollama", "Mistral"}
GroqLlama == {"Groq", "Llama 3"}
OllamaLlama32 == {"Ollama", "Llama 3.2", "Llama 3"}
ModelNames == {OllamaMistral, OllamaLlama32, GroqLlama}
\* the two selections of the sidebar: two different local models can be chosen
GeneratorNames == {OllamaMistral, GroqLlama}
JudgeNames == {OllamaLlama32, GroqLlama}

ChunkSizeValues == {1, 2}
ChunkOverlapLists == {<<1>>}
TemperatureLists == {<<7>>}
TopPLists == {<<9>>}

SeqsUpTo(S, n) == UNION {[1..m -> S] : m \in 1..n}
\* one or two chunk sizes: with the overlap 1, size 1 is an invalid pair
ChunkSizeLists == SeqsUpTo(ChunkSizeValues, Cardinality(ChunkSizeValues))
KRetrievalLists == {<<1>>, <<1, 3>>}
FileCounts == 0..2     \* how many documents the caller supplies

\* the sidebar's slider for max_concurrency starts at 1, which is also the
\* value run_batch_experiment takes for a config without the key
DefaultConcurrency == 1

\* the callers: the application passes a progress bar and a status
\* placeholder, the tests pass neither
Sinks == {[progress_bar |-> ui, status_placeholder |-> ui] : ui \in BOOLEAN}

Configs ==
    {[model_name |-> m, judge_model |-> j, chunk_sizes |-> cs,
      chunk_overlaps |-> co, k_retrievals |-> ks, temperatures |-> t,
      top_ps |-> p, file_paths |-> f, progress_bar |-> sink.progress_bar,
      status_placeholder |-> sink.status_placeholder,
      max_concurrency |-> DefaultConcurrency] :
        m \in GeneratorNames, j \in JudgeNames,
        cs \in ChunkSizeLists, co \in ChunkOverlapLists,
        ks \in KRetrievalLists, t \in TemperatureLists, p \in TopPLists,
        f \in FileCounts, sink \in Sinks}

VARIABLES
    cfg,                 \* config, file_paths, progress_bar, status_placeholder
    pc,                  \* position in run_batch_experiment
    err,                 \* why the run returned early or raised ("" otherwise)
    fi,                  \* index of the next document to load (fi - 1 were loaded)
    raw_docs,            \* number of text units loaded so far
    ingestion_params,
    retrieval_params,
    generation_params,
    total_steps,
    current_step,
    gi,                  \* index of the ingestion pair being processed
    vectorstore,         \* index of the current group (None, or the group's own)
    tasks,
    generation_results,
    ti,                  \* loop index of the running phase
    results,
    progress_last,       \* last value passed to progress_bar.progress
    faults,              \* collaborator failures so far
    server,              \* the local model server as the run finds it
    gen_outcomes,        \* per task: success flags of its generation outcomes
    calls,               \* per group: collaborator calls made so far
    gen_invoked,         \* per task: rag_chain.invoke calls
    judge_invoked,       \* per task: judge_chain.invoke calls
    resolved,            \* per task: how the task was resolved, in order
    max_workers,         \* the concurrency limit read from the config (0: not yet)
    loaded,              \* the models held in memory by the local model server
    gave_up,             \* per task: the calls ("gen", "judge") that met a
                         \* transient failure at every attempt allowed
    MODEL_CONFIG,        \* the provider -> retry policy table loaded at import
    call,                \* one pipeline call made through the retry wrapper
    environ,             \* os.environ: the names of the API keys that are set
    health,              \* the call of ensure_ollama_reachable: where it is, the
                         \* processes it started, its polls, what it returned
    release              \* the last request made to the local model server for
                         \* a display name, and what the server held before it

vars == <<cfg, pc, err, fi, raw_docs, ingestion_params, retrieval_params,
          generation_params, total_steps, current_step, gi, vectorstore, tasks,
          generation_results, ti, results, progress_last, faults,
          server, gen_outcomes, calls, gen_invoked, judge_invoked, resolved,
          max_workers, loaded, gave_up, MODEL_CONFIG, call, release, environ, health>>

RunVarsButHealth ==
    <<cfg, pc, err, fi, raw_docs, ingestion_params, retrieval_params,
      generation_params, total_steps, current_step, gi, vectorstore, tasks,
      generation_results, ti, results, progress_last, faults, server,
      gen_outcomes, calls, gen_invoked, judge_invoked, resolved,
      gave_up, loaded, max_workers, environ>>

\* ----------------------------------------------------------------- helpers
Contains(marker, name) == marker \in name

Min(a, b) == IF a <= b THEN a ELSE b

\* mutant: the second list is the major one
ProductSecondMajor(s, t) ==
    [n \in 1..(Len(s) * Len(t)) |->
        <<s[((n - 1) % Len(s)) + 1], t[((n - 1) \div Len(s)) + 1]>>]

\* itertools.product of two lists, as a list (first list major)
Product(s, t) ==
    [n \in 1..(Len(s) * Len(t)) |->
        <<s[((n - 1) \div Len(t)) + 1], t[((n - 1) % Len(t)) + 1]>>]

\* 1. Define Grid
IngestionParamsOf(c) ==
    IF c.file_paths > 0 THEN Product(c.chunk_sizes, c.chunk_overlaps)
    ELSE << <<None, None>> >>

\* mutant: the retrieval depths of the config are used also without documents
RetrievalParamsAsGiven(c) == c.k_retrievals

RetrievalParamsOf(c) == IF c.file_paths > 0 THEN c.k_retrievals ELSE <<0>>

GenerationParamsOf(c) == Product(c.temperatures, c.top_ps)

\* mutant: only the pairs that will be processed are counted
TotalStepsValidOnly(ip, rp, gp) ==
    Cardinality({g \in 1..Len(ip) : ip[g][2] < ip[g][1]}) * Len(rp) * Len(gp)

TotalSteps(ip, rp, gp) == Len(ip) * Len(rp) * Len(gp)

GroupQuota(rp, gp) == Len(rp) * Len(gp)

\* mutant: a pair whose overlap equals the chunk size is let through
OverlapNotChecked(chunk_size, chunk_overlap) == chunk_overlap > chunk_size

\* if chunk_overlap >= chunk_size
InvalidPair(chunk_size, chunk_overlap) == chunk_overlap >= chunk_size

\* mutant: the index of the first group is kept for the groups after it
BuildTasksStaleIndex(g, pair, vs, rp, gp) ==
    [i \in 1..(Len(rp) * Len(gp)) |->
        [g |-> g, i |-> i,
         k |-> rp[((i - 1) \div Len(gp)) + 1],
         temperature |-> gp[((i - 1) % Len(gp)) + 1][1],
         top_p |-> gp[((i - 1) % Len(gp)) + 1][2],
         chunk_size |-> pair[1],
         chunk_overlap |-> pair[2],
         vectorstore |-> IF vs = None THEN None ELSE 1]]

\* mutant: tasks are built for the first retrieval depth only
BuildTasksFirstK(g, pair, vs, rp, gp) ==
    [i \in 1..Len(gp) |->
        [g |-> g, i |-> i, k |-> rp[1],
         temperature |-> gp[i][1], top_p |-> gp[i][2],
         chunk_size |-> pair[1], chunk_overlap |-> pair[2], vectorstore |-> vs]]

\* the task list of one group: for k: for (temperature, top_p)
BuildTasks(g, pair, vs, rp, gp) ==
    [i \in 1..(Len(rp) * Len(gp)) |->
        [g |-> g, i |-> i,
         k |-> rp[((i - 1) \div Len(gp)) + 1],
         temperature |-> gp[((i - 1) % Len(gp)) + 1][1],
         top_p |-> gp[((i - 1) % Len(gp)) + 1][2],
         chunk_size |-> pair[1],
         chunk_overlap |-> pair[2],
         vectorstore |-> vs]]

TaskIdsOf(c) ==
    {<<g, i>> : g \in 1..Len(IngestionParamsOf(c)),
                i \in 1..GroupQuota(RetrievalParamsOf(c), GenerationParamsOf(c))}

\* (bound: the indexes the generation pipelines of the group were built on)
NoCalls == [split |-> 0, build |-> 0, gen_build |-> 0, gen_unload |-> 0,
            judge_build |-> 0, judge_unload |-> 0, bound |-> {}]

NoProgress == <<>>

\* ------------------------------------------------------------ retry policy
\* dict.get(key, default)
Get(d, key, default) == IF key \in DOMAIN d THEN d[key] ELSE default

\* the policy table is a dict: any subset of the keys may be present, and a
\* policy may lack any of its fields (no table file: MODEL_CONFIG stays {})
PolicyKeys == {"Ollama", "Groq", "default"}

Policies ==
    {[enable_retry |-> TRUE, max_attempts |-> 3],
     [enable_retry |-> TRUE, max_attempts |-> 1],
     [enable_retry |-> TRUE],
     [enable_retry |-> FALSE, max_attempts |-> 3],
     [max_attempts |-> 3],
     [enable_retry |-> TRUE, wait_min |-> 1, wait_max |-> 3],
     [enable_retry |-> TRUE, max_attempts |-> 4, wait_min |-> 5, wait_max |-> 10]}

PolicyTables == UNION {[keys -> Policies] : keys \in SUBSET PolicyKeys}

NoRetryPolicy == [enable_retry |-> FALSE]

\* mutant: Groq is looked for first
ProvidersGroqFirst == <<"Groq", "Ollama", "GitHub", "Gemini">>

\* for provider in ["Ollama", "Groq", "GitHub", "Gemini"]
Providers == <<"Ollama", "Groq", "GitHub", "Gemini">>

RECURSIVE MatchFrom(_, _, _)
MatchFrom(table, model_name, n) ==
    IF n > Len(Providers)
    THEN Get(table, "default", NoRetryPolicy)
    ELSE IF Contains(Providers[n], model_name)
    THEN Get(table, Providers[n], Get(table, "default", NoRetryPolicy))
    ELSE MatchFrom(table, model_name, n + 1)

\* mutant: an unmatched name gets the built-in policy whatever the table says
MatchThenBuiltIn(table, model_name) ==
    IF \E n \in 1..Len(Providers) : Contains(Providers[n], model_name)
    THEN MatchFrom(table, model_name, 1)
    ELSE NoRetryPolicy

get_retry_config(table, model_name) == MatchFrom(table, model_name, 1)

DefaultMaxAttempts == 5

DefaultWaitMin == 4

DefaultWaitMax == 60

\* no Retrying object
NoRetryer == [built |-> FALSE, max_attempts |-> 0, wait_min |-> 0, wait_max |-> 0]

\* a Retrying object stops after max_attempts attempts and re-raises, and
\* sleeps wait_exponential(multiplier=2, min=wait_min, max=wait_max) between
\* two attempts
create_retryer(config) ==
    IF ~Get(config, "enable_retry", FALSE) THEN NoRetryer
    ELSE [built |-> TRUE,
          max_attempts |-> Get(config, "max_attempts", DefaultMaxAttempts),
          wait_min |-> Get(config, "wait_min", DefaultWaitMin),
          wait_max |-> Get(config, "wait_max", DefaultWaitMax)]

Max(a, b) == IF a >= b THEN a ELSE b

RECURSIVE Power(_, _)
Power(base, n) == IF n = 0 THEN 1 ELSE base * Power(base, n - 1)

WaitMultiplier == 2

ExpBase == 2

\* mutant: the exponential value is not clamped
WaitUnclamped(retryer, attempt_number) ==
    WaitMultiplier * Power(ExpBase, attempt_number - 1)

\* tenacity's wait_exponential: multiplier * exp_base ** (attempt_number - 1),
\* clamped as  max(max(0, min), min(result, max))
wait_exponential(retryer, attempt_number) ==
    Max(Max(0, retryer.wait_min),
        Min(WaitMultiplier * Power(ExpBase, attempt_number - 1), retryer.wait_max))

\* retry_if_exception_type((RateLimitError, InternalServerError))
TransientErrors == {"RateLimitError", "InternalServerError"}

\* a pipeline is the script of what its invocations do, one entry per
\* invocation (the last entry repeats): return a response ("ok", or a
\* response of the wrong shape) or raise an exception of the named kind
Responses == {"ok", "no_answer", "no_context", "not_a_dict"}

ScriptAt(script, n) == script[Min(n, Len(script))]

\* mutant: every exception is retried
RetriedAny(outcome) == outcome \notin Responses

Retried(outcome) == outcome \in TransientErrors

\* mutant: one attempt more is allowed
StopAfterOneMore(max_attempts, attempt_number) == attempt_number > max_attempts

\* stop=stop_after_attempt(max_attempts)
stop_after_attempt(max_attempts, attempt_number) == attempt_number >= max_attempts

\* for attempt in retryer: with attempt: response = chain.invoke(...)
\* this is invocation number attempt_number
RECURSIVE Attempts(_, _, _)
Attempts(script, retryer, attempt_number) ==
    LET outcome == ScriptAt(script, attempt_number)
    IN IF Retried(outcome) /\ ~stop_after_attempt(retryer.max_attempts, attempt_number)
       THEN \* sleep, then the next attempt
            LET rest == Attempts(script, retryer, attempt_number + 1)
            IN [rest EXCEPT !.waits =
                   <<wait_exponential(retryer, attempt_number)>> \o @]
       ELSE [invocations |-> attempt_number, outcome |-> outcome, waits |-> <<>>]

\* mutant: the call without a retryer is made a second time
InvokeTwice(script, retryer) ==
    IF retryer.built THEN Attempts(script, retryer, 1)
    ELSE [invocations |-> 2, outcome |-> ScriptAt(script, 2), waits |-> <<>>]

\* if retryer: (the loop)  else: response = chain.invoke(...)
Invoke(script, retryer) ==
    IF retryer.built THEN Attempts(script, retryer, 1)
    ELSE [invocations |-> 1, outcome |-> ScriptAt(script, 1), waits |-> <<>>]

\* the pipeline fails with a transient error at each attempt the policy of
\* the model allows
KeepsFailing(table, model_name, script) ==
    LET retryer == create_retryer(get_retry_config(table, model_name))
    IN /\ retryer.built
       /\ \A n \in 1..retryer.max_attempts : ScriptAt(script, n) \in TransientErrors

\* ---------------------------------------------------- local model server
\* The local machine as the run finds it: the answers of the two health checks
\* made before a start is attempted (200, another status, or no connection),
\* whether the ollama executable is on the PATH, whether the process can be
\* spawned, and the first poll at which a started server answers
\* (PollLimit + 1: it never does).
ServerEnv(first, second, has_exe, popen_ok, up_at) ==
    [first |-> first, second |-> second, has_exe |-> has_exe,
     popen_ok |-> popen_ok, up_at |-> up_at]

ServerUp == ServerEnv("200", "200", TRUE, TRUE, 1)

ServerEnvs ==
    {ServerUp,
     ServerEnv("ConnectionError", "200", TRUE, TRUE, 1),
     ServerEnv("ConnectionError", "ConnectionError", TRUE, TRUE, 1),
     ServerEnv("ConnectionError", "ConnectionError", TRUE, TRUE, PollLimit),
     ServerEnv("ConnectionError", "ConnectionError", TRUE, TRUE, PollLimit + 1),
     ServerEnv("ConnectionError", "ConnectionError", TRUE, FALSE, 1),
     ServerEnv("ConnectionError", "ConnectionError", FALSE, TRUE, 1),
     ServerEnv("503", "503", TRUE, TRUE, PollLimit + 1)}

is_ollama_running(response) == response = "200"

start_ollama_server(env) ==
    IF is_ollama_running(env.second) THEN TRUE
    ELSE IF ~env.has_exe THEN FALSE
    ELSE IF ~env.popen_ok THEN FALSE
    ELSE env.up_at <= PollLimit

ensure_ollama_reachable(env) ==
    IF is_ollama_running(env.first) THEN TRUE
    ELSE start_ollama_server(env)

\* ensure_ollama_reachable has not been called
NoHealth == [at |-> "idle", started |-> 0, polls |-> 0, result |-> FALSE]

\* its locals are gone once the caller has read what it returned
HealthRead == [NoHealth EXCEPT !.at = "read"]

\* mutant: the loop polls once more
PollsLeftInclusive(polls) == polls <= PollLimit

\* for _ in range(10): another poll follows while fewer than 10 were made
PollsLeft(polls) == polls < PollLimit

\* unload_ollama_model, lines 61-66: the model id the evict request names
OllamaModelId(model_name) ==
    IF Contains("Llama 3.2", model_name) THEN "llama3.2"
    ELSE IF Contains("Mistral", model_name) THEN "mistral"
    ELSE "mistral"

\* get_llm: the provider whose client class is constructed; the Groq and
\* GitHub names are looked for before the Ollama ones
ProviderOf(model_name) ==
    IF Contains("Groq", model_name) THEN "Groq"
    ELSE IF Contains("GitHub", model_name) THEN "GitHub"
    ELSE IF Contains("Ollama", model_name) THEN "Ollama"
    ELSE "Google"

\* get_llm: the target_model the client is constructed for
target_model(model_name) ==
    IF ProviderOf(model_name) = "Groq"
    THEN (IF Contains("70b", model_name) THEN "llama-3.1-70b-versatile"
          ELSE IF Contains("Mixtral", model_name) THEN "mixtral-8x7b-32768"
          ELSE "llama-3.1-8b-instant")
    ELSE IF ProviderOf(model_name) = "GitHub"
    THEN (IF Contains("Grok 3", model_name) THEN "grok-3"
          ELSE IF Contains("GPT-4o", model_name) THEN "gpt-4o"
          ELSE "None")
    ELSE IF ProviderOf(model_name) = "Ollama"
    THEN (IF Contains("Llama 3.2", model_name) THEN "llama3.2"
          ELSE IF Contains("Mistral", model_name) THEN "mistral"
          ELSE "mistral")
    ELSE (IF Contains("GPT-4", model_name) \/ Contains("Sonnet", model_name)
             \/ Contains("Pro", model_name)
          THEN "gemini-pro-latest" ELSE "gemini-flash-latest")

\* the local server loads a model to serve a request for it: the requests of a
\* ChatOllama client go to the local server, those of the other clients do not
AfterRequest(held, model_name, requested) ==
    IF ProviderOf(model_name) = "Ollama" /\ requested
    THEN held \cup {target_model(model_name)} ELSE held

\* mutant: the empty prompt of the evict request loads a model that is not held
EvictOrLoad(held, model_name, evict_ok) ==
    IF ~evict_ok THEN held
    ELSE IF OllamaModelId(model_name) \in held
    THEN held \ {OllamaModelId(model_name)}
    ELSE held \cup {OllamaModelId(model_name)}

\* keep_alive = 0 evicts the model, when the request succeeds
AfterEvict(held, model_name, evict_ok) ==
    IF evict_ok THEN held \ {OllamaModelId(model_name)} ELSE held

\* no request has been made to the local server
NoRelease == [at |-> "none", model_name |-> {}, ok |-> FALSE, before |-> {},
              target |-> "", evicted |-> "", repeat |-> 0, n |-> 0]

\* ------------------------------------------------------------ credentials
\* get_llm: the environment variable the API key of a model is read from
\* ("": the model needs no key; "none": api_key stays None)
ApiKeyOf(model_name) ==
    IF Contains("Groq", model_name) THEN "GROQ_API_KEY"
    ELSE IF Contains("GitHub", model_name)
    THEN (IF Contains("Grok 3", model_name) THEN "GITHUB_TOKEN_GROK"
          ELSE IF Contains("GPT-4o", model_name) THEN "GITHUB_TOKEN_OPENAI"
          ELSE "none")
    ELSE IF Contains("Ollama", model_name) THEN ""
    ELSE "GOOGLE_API_KEY"

\* if not api_key: st.error("Missing ...")   -- and get_llm goes on
CredentialsMissing(model_name, env) ==
    ApiKeyOf(model_name) # "" /\ ApiKeyOf(model_name) \notin env

\* get_llm hands the key, set or not, to the provider's client class.  The
\* constructors of ChatGroq and ChatOpenAI raise on a key that is None; the
\* one of ChatGoogleGenerativeAI lets it pass ("it will fail on execution")
ClientRefuses(model_name, env) ==
    CredentialsMissing(model_name, env) /\ ApiKeyOf(model_name) # "GOOGLE_API_KEY"

\* get_llm returns what the constructor gives: FALSE when it raises
get_llm(model_name, env, client_ok) == client_ok /\ ~ClientRefuses(model_name, env)

\* every request of a client without its key is refused by the provider
Unauthorized == <<"error">>

Environs == {{"GROQ_API_KEY"}, {}}

\* mutant: only the generator is looked at
NeedsOllamaGeneratorOnly(c) == Contains("Ollama", c.model_name)

\* if "Ollama" in config["model_name"] or "Ollama" in config["judge_model"]
NeedsOllama(c) ==
    Contains("Ollama", c.model_name) \/ Contains("Ollama", c.judge_model)

\* the policy table of the runs: the hosted provider is retried (two attempts),
\* the local one falls back to the built-in default
RunTables == {[Groq |-> [enable_retry |-> TRUE, max_attempts |-> 2]]}

\* _run_generation or _run_judging has not come to its end
NoResult == [returned |-> FALSE, raised |-> "", successful |-> FALSE, keys |-> {}]

NoCall == [model_name |-> {}, script |-> <<>>, state |-> "none",
           policy |-> NoRetryPolicy, retryer |-> NoRetryer,
           invocations |-> 0, outcome |-> "", waits |-> <<>>,
           role |-> "", result |-> NoResult]

\* ------------------------------------------------------------------- Init
InitOf(configs) ==
    /\ cfg \in configs
    /\ pc = "start"
    /\ err = ""
    /\ fi = 1
    /\ raw_docs = 0
    /\ ingestion_params = <<>>
    /\ retrieval_params = <<>>
    /\ generation_params = <<>>
    /\ total_steps = 0
    /\ current_step = 0
    /\ gi = 1
    /\ vectorstore = None
    /\ tasks = <<>>
    /\ generation_results = <<>>
    /\ ti = 1
    /\ results = <<>>
    /\ progress_last = NoProgress
    /\ faults = 0
    /\ server \in (IF "Ollama" \in cfg.model_name \cup cfg.judge_model
                   THEN ServerEnvs ELSE {ServerUp})
    /\ gen_outcomes = [t \in TaskIdsOf(cfg) |-> <<>>]
    /\ calls = [g \in 1..Len(IngestionParamsOf(cfg)) |-> NoCalls]
    /\ gen_invoked = [t \in TaskIdsOf(cfg) |-> 0]
    /\ judge_invoked = [t \in TaskIdsOf(cfg) |-> 0]
    /\ resolved = [t \in TaskIdsOf(cfg) |-> <<>>]
    /\ gave_up = [t \in TaskIdsOf(cfg) |-> {}]
    /\ loaded = {}
    /\ max_workers = 0
    /\ MODEL_CONFIG \in RunTables
    /\ call = NoCall
    /\ environ \in (IF "Groq" \in cfg.model_name \cup cfg.judge_model
                    THEN Environs ELSE {{"GROQ_API_KEY"}})
    /\ health = NoHealth
    /\ release = NoRelease

Init == InitOf(Configs)

\* ------------------------------------------------------------- reporting
\* mutant: the value is not capped
ProgressValueUncapped(cs, ts) == <<cs, ts>>

ProgressValue(cs, ts) == <<Min(cs, ts), ts>>

\* if progress_bar: try: progress_bar.progress(min(current_step / total_steps, 1.0))
\*                  except: pass
\* (a division by zero is swallowed by the same except)
\* an exception of the sink itself is swallowed too: it changes nothing
ReportProgress(cs) ==
    IF cfg.progress_bar /\ total_steps > 0
    THEN progress_last' = ProgressValue(cs, total_steps)
    ELSE UNCHANGED progress_last

\* if status_placeholder: status_placeholder.info(...)   -- TRUE when it raises
StatusRaises(sink_ok) == cfg.status_placeholder /\ ~sink_ok

\* a run meets at most MaxFaults failures of its collaborators that it has to
\* handle; a failure that is swallowed without any effect (of the progress
\* sink, of the status sink after a judgement) may happen at every call
Fault(failed) == IF failed THEN 1 ELSE 0

\* the outcome of a collaborator call the step does not make is not an input
\* of the step: it is held at "succeeds"
OnlyIf(made, ok) == made \/ ok

Inject(n) ==
    /\ faults + n <= MaxFaults
    /\ faults' = faults + n

\* the exception leaves run_batch_experiment
Raise(why) ==
    /\ pc' = "raised"
    /\ err' = why

\* the head of  for chunk_size, chunk_overlap in ingestion_params  (and line 291)
LoopHead(g, n) == IF g > n THEN "returned" ELSE "ingest"

ResolveGroup(g, tag) ==
    [t \in DOMAIN resolved |->
        IF t[1] = g THEN Append(resolved[t], tag) ELSE resolved[t]]

\* max_workers = config.get("max_concurrency", 1)
MaxWorkersOf(c) == Get(c, "max_concurrency", DefaultConcurrency)

\* ------------------------------------------------------------- startup
\* lines 119-140: health check of the local server, grid, total_steps
\* ensure_ollama_reachable, lines 50-54: the first health check
EnsureReachable ==
    /\ pc = "start"
    /\ NeedsOllama(cfg)
    /\ health.at = "idle"
    /\ health' = IF is_ollama_running(server.first)
                 THEN [health EXCEPT !.at = "returned", !.result = TRUE]
                 ELSE [health EXCEPT !.at = "start_ollama_server"]
    /\ UNCHANGED <<RunVarsButHealth, MODEL_CONFIG, call, release>>

\* start_ollama_server, lines 23-34: the second health check, the look for
\* the executable and the start of the process (an exception of Popen is
\* caught at line 46)
StartServer ==
    /\ pc = "start"
    /\ health.at = "start_ollama_server"
    /\ health' = IF is_ollama_running(server.second)
                 THEN [health EXCEPT !.at = "returned", !.result = TRUE]
                 ELSE IF ~server.has_exe \/ ~server.popen_ok
                 THEN [health EXCEPT !.at = "returned", !.result = FALSE]
                 ELSE [health EXCEPT !.at = "poll", !.started = @ + 1]
    /\ UNCHANGED <<RunVarsButHealth, MODEL_CONFIG, call, release>>

\* lines 37-44: one iteration of  for _ in range(10) , and line 43 after the
\* last one
PollServer ==
    /\ pc = "start"
    /\ health.at = "poll"
    /\ PollsLeft(health.polls)
    /\ health' = IF is_ollama_running(IF server.up_at <= health.polls + 1
                                      THEN "200" ELSE "ConnectionError")
                 THEN [health EXCEPT !.at = "returned", !.polls = @ + 1,
                                     !.result = TRUE]
                 ELSE IF PollsLeft(health.polls + 1)
                 THEN [health EXCEPT !.polls = @ + 1]
                 ELSE [health EXCEPT !.at = "returned", !.polls = @ + 1,
                                     !.result = FALSE]
    /\ UNCHANGED <<RunVarsButHealth, MODEL_CONFIG, call, release>>

Startup ==
    /\ pc = "start"
    /\ NeedsOllama(cfg) => health.at = "returned"
    /\ health' = IF NeedsOllama(cfg) THEN HealthRead ELSE health
    /\ IF NeedsOllama(cfg) /\ ~health.result
       THEN /\ pc' = "returned"
            /\ err' = "ollama_unreachable"
            /\ results' = <<>>
            /\ UNCHANGED <<server, ingestion_params, retrieval_params, generation_params,
                           total_steps, current_step, max_workers>>
       ELSE /\ ingestion_params' = IngestionParamsOf(cfg)
            /\ retrieval_params' = RetrievalParamsOf(cfg)
            /\ generation_params' = GenerationParamsOf(cfg)
            /\ total_steps' = TotalSteps(IngestionParamsOf(cfg),
                                         RetrievalParamsOf(cfg),
                                         GenerationParamsOf(cfg))
            /\ current_step' = 0
            /\ results' = <<>>
            \* a server that was started is running from now on
            /\ server' = IF NeedsOllama(cfg) THEN ServerUp ELSE server
            /\ pc' = IF cfg.file_paths > 0 THEN "load"
                     ELSE LoopHead(1, Len(IngestionParamsOf(cfg)))
            \* without documents lines 156-157 follow at once
            /\ max_workers' = IF cfg.file_paths > 0 THEN max_workers
                              ELSE MaxWorkersOf(cfg)
            /\ UNCHANGED err
    /\ UNCHANGED <<loaded, gave_up, MODEL_CONFIG, call, release, environ, cfg, fi, raw_docs, gi, vectorstore, tasks, generation_results,
                   ti, progress_last, faults, gen_outcomes, calls, gen_invoked,
                   judge_invoked, resolved>>

\* mutant: the document that failed is left out and the loop goes on
OnLoadErrorGoOn == "load"

\* mutant: the load error is re-raised
OnLoadErrorRaise == "raised"

\* what a failed load_document does to the run:  st.error(...); return []
OnLoadError == "returned"

LoadOutcomes == {"error", "empty", "units"}

\* lines 142-154: one iteration of  for f_path in file_paths , and after the
\* last one the check  if not raw_docs
LoadDocument(outcome) ==
    /\ pc = "load"
    /\ fi <= cfg.file_paths
    /\ Inject(Fault(outcome = "error"))
    /\ fi' = fi + 1
    /\ IF outcome = "error"
       THEN /\ pc' = OnLoadError
            /\ err' = "load_failed"
            /\ UNCHANGED <<raw_docs, max_workers>>
       ELSE /\ raw_docs' = raw_docs + (IF outcome = "units" THEN 1 ELSE 0)
            /\ IF fi < cfg.file_paths
               THEN UNCHANGED <<pc, err, max_workers>>
               ELSE IF raw_docs' = 0
                    THEN /\ pc' = "returned" /\ err' = "no_documents"
                         /\ UNCHANGED max_workers
                    ELSE /\ pc' = LoopHead(1, Len(ingestion_params))
                         \* lines 156-157: the limit is read, and never used
                         /\ max_workers' = MaxWorkersOf(cfg)
                         /\ UNCHANGED err
    /\ UNCHANGED <<loaded, gave_up, MODEL_CONFIG, call, release, environ, health, cfg, ingestion_params, retrieval_params, generation_params,
                   total_steps, current_step, gi, vectorstore, tasks,
                   generation_results, ti, results, progress_last, server,
                   gen_outcomes, calls, gen_invoked, judge_invoked, resolved>>

\* ------------------------------------------------------------- ingestion
\* lines 164-172: an invalid pair is skipped and counted
SkipInvalidGroup(progress_ok) ==
    /\ pc = "ingest"
    /\ cfg.file_paths > 0
    /\ InvalidPair(ingestion_params[gi][1], ingestion_params[gi][2])
    /\ OnlyIf(cfg.progress_bar, progress_ok)
    /\ UNCHANGED faults
    /\ current_step' = current_step + GroupQuota(retrieval_params, generation_params)
    /\ ReportProgress(current_step')
    /\ resolved' = ResolveGroup(gi, "skipped_group")
    /\ vectorstore' = None
    /\ gi' = gi + 1
    /\ pc' = LoopHead(gi + 1, Len(ingestion_params))
    /\ UNCHANGED <<max_workers, loaded, gave_up, MODEL_CONFIG, call, release, environ, health, cfg, err, fi, raw_docs, ingestion_params, retrieval_params,
                   generation_params, total_steps, tasks, generation_results,
                   ti, results, server, gen_outcomes, calls, gen_invoked,
                   judge_invoked>>

\* mutant: the run ends at the failed group
OnIngestionErrorReturn(g, n) == "returned"

\* mutant: the judge's release is still made for the failed group
OnIngestionErrorRelease(g, n) == "unload_judge"

\* except Exception: st.error(...); current_step += ...; continue
OnIngestionError(g, n) == LoopHead(g + 1, n)

\* lines 174-184: split_documents or create_vectorstore raises
IngestionError(split_ok) ==
    /\ pc = "ingest"
    /\ cfg.file_paths > 0
    /\ ~InvalidPair(ingestion_params[gi][1], ingestion_params[gi][2])
    /\ Inject(1)
    /\ calls' = [calls EXCEPT ![gi].split = @ + 1,
                              ![gi].build = @ + (IF split_ok THEN 1 ELSE 0)]
    /\ current_step' = current_step + GroupQuota(retrieval_params, generation_params)
    /\ resolved' = ResolveGroup(gi, "skipped_group")
    /\ vectorstore' = None
    /\ gi' = gi + 1
    /\ pc' = OnIngestionError(gi, Len(ingestion_params))
    /\ UNCHANGED <<max_workers, loaded, gave_up, MODEL_CONFIG, call, release, environ, health, cfg, err, fi, raw_docs, ingestion_params, retrieval_params,
                   generation_params, total_steps, tasks, generation_results,
                   ti, results, progress_last, server, gen_outcomes, gen_invoked,
                   judge_invoked>>

\* lines 162-205: the index is built (or there are no documents), the task list
\* is built and Phase 1 is announced
BuildTaskList(status_ok) ==
    /\ pc = "ingest"
    /\ cfg.file_paths > 0 =>
           ~InvalidPair(ingestion_params[gi][1], ingestion_params[gi][2])
    /\ OnlyIf(cfg.status_placeholder, status_ok)
    /\ Inject(Fault(StatusRaises(status_ok)))
    /\ calls' = IF cfg.file_paths > 0
                THEN [calls EXCEPT ![gi].split = @ + 1, ![gi].build = @ + 1]
                ELSE calls
    /\ vectorstore' = IF cfg.file_paths > 0 THEN gi ELSE None
    /\ tasks' = BuildTasks(gi, ingestion_params[gi], vectorstore',
                           retrieval_params, generation_params)
    /\ IF StatusRaises(status_ok)
       THEN /\ Raise("status_sink")
            /\ UNCHANGED <<generation_results, ti>>
       ELSE /\ generation_results' = <<>>
            /\ ti' = 1
            /\ pc' = IF Len(tasks') = 0 THEN "unload_gen" ELSE "phase1"
            /\ UNCHANGED err
    /\ UNCHANGED <<max_workers, loaded, gave_up, MODEL_CONFIG, call, release, environ, health, cfg, fi, raw_docs, ingestion_params, retrieval_params,
                   generation_params, total_steps, current_step, gi, results,
                   progress_last, server, gen_outcomes, gen_invoked,
                   judge_invoked, resolved>>

\* ------------------------------------------------------------- phase 1
\* mutant: with several workers the release is issued as soon as one task is done
AfterGenerationByWorkers(i, n) ==
    IF max_workers > 1 \/ i = n THEN "unload_gen" ELSE "phase1"

\* mutant: the loop is left after its first task
AfterFirstGeneration(i, n) == "unload_gen"

\* for i, task in enumerate(tasks): the release follows the last task
AfterGeneration(i, n) == IF i = n THEN "unload_gen" ELSE "phase1"

\* get_rag_chain(llm, task["vectorstore"], k=task["k"]): the pipeline retrieves
\* k chunks from the index it is given
get_rag_chain(vs, k) == [vectorstore |-> vs, k |-> k]

GenScripts ==
    {<<"ok">>, <<"no_answer">>, <<"error">>,
     <<"RateLimitError", "ok">>, <<"RateLimitError", "InternalServerError">>}

\* mutant: one retry wrapper serves the whole phase, and the attempts the task
\* before has made are gone
RunGenerationSharedRetryer(table, model_name, script, task) ==
    LET fresh == create_retryer(get_retry_config(table, model_name))
        used == IF task.i > 1 THEN gen_invoked[<<task.g, task.i - 1>>] ELSE 0
        made == Invoke(script, [fresh EXCEPT !.max_attempts = Max(1, @ - used)])
    IN IF made.outcome = "ok"
       THEN [successful |-> TRUE, answer |-> <<task.g, task.i>>,
             invocations |-> made.invocations, raised |-> "",
             keys |-> {"successful", "answer", "context", "latency_rag"}]
       ELSE [successful |-> FALSE, answer |-> None,
             invocations |-> made.invocations, raised |-> "",
             keys |-> {"successful", "error"}]

\* the exceptions a call can meet: those of the pipeline, and those of reading
\* a response of the wrong shape
ExceptionClasses == TransientErrors \cup {"error", "KeyError", "TypeError"}

\* mutant: only the errors that are retried are caught
CaughtIfTransient(exception) == exception \in TransientErrors

\* except Exception as e: return {"successful": False, "error": str(e)}
Caught(exception) == exception \in ExceptionClasses

\* lines 51-73: what the body of _run_generation raises ("": nothing) for the
\* outcome of its call: the exception the retry wrapper lets through, or the
\* one of  response["answer"]  and  response["context"]
GenerationRaises(outcome) ==
    IF outcome \notin Responses THEN outcome
    ELSE IF outcome \in {"no_answer", "no_context"} THEN "KeyError"
    ELSE IF outcome = "not_a_dict" THEN "TypeError"
    ELSE ""

\* _run_generation: every exception (of the pipeline, re-raised by the retry
\* wrapper, or the KeyError of a response without an answer) becomes a failed
\* outcome; the answer is identified by the task that produced it
\* (invocations is not part of the outcome: it counts rag_chain.invoke calls;
\* raised: the exception that leaves the function, keys: those of the dict)
_run_generation(table, model_name, script, task) ==
    LET made == Invoke(script, create_retryer(get_retry_config(table, model_name)))
        exception == GenerationRaises(made.outcome)
    IN IF exception = ""
       THEN [successful |-> TRUE, answer |-> <<task.g, task.i>>,
             invocations |-> made.invocations, raised |-> "",
             keys |-> {"successful", "answer", "context", "latency_rag"}]
       ELSE IF Caught(exception)
       THEN [successful |-> FALSE, answer |-> None,
             invocations |-> made.invocations, raised |-> "",
             keys |-> {"successful", "error"}]
       ELSE [successful |-> FALSE, answer |-> None,
             invocations |-> made.invocations, raised |-> exception,
             keys |-> {}]

WithTask(outcome, task) ==
    [successful |-> outcome.successful, answer |-> outcome.answer, task |-> task]

FailedGeneration(task) == [successful |-> FALSE, answer |-> None, task |-> task]

\* lines 207-221: one iteration of  for i, task in enumerate(tasks)
GenerateTask(llm_ok, chain_ok, script, status_ok) ==
    /\ pc = "phase1"
    /\ ti <= Len(tasks)
    /\ LET task == tasks[ti]
           id == <<task.g, task.i>>
           missing == CredentialsMissing(cfg.model_name, environ)
           built == get_llm(cfg.model_name, environ, llm_ok) /\ chain_ok
           refused == ClientRefuses(cfg.model_name, environ)
       IN /\ OnlyIf(~refused, llm_ok)
          /\ OnlyIf(llm_ok /\ ~refused, chain_ok)
          /\ OnlyIf(built, script = <<"ok">>)
          /\ OnlyIf(built /\ cfg.status_placeholder, status_ok)
          /\ (built /\ missing) => script = Unauthorized
          \* what a missing key brings about is no failure of the budget
          /\ Inject(IF ~built THEN Fault(~refused)
                    ELSE Fault(~missing /\ script # <<"ok">>)
                            + Fault(StatusRaises(status_ok)))
          /\ \E outcome \in {_run_generation(MODEL_CONFIG, cfg.model_name, script, task)} :
             LET gen_result == WithTask(outcome, task)
             IN
             /\ calls' = [calls EXCEPT
                            ![gi].gen_build = @ + 1,
                            ![gi].bound =
                                IF get_llm(cfg.model_name, environ, llm_ok)
                                THEN @ \cup {get_rag_chain(task.vectorstore,
                                                           task.k).vectorstore}
                                ELSE @]
             /\ loaded' = AfterRequest(loaded, cfg.model_name, built)
             /\ gave_up' = IF built /\ KeepsFailing(MODEL_CONFIG, cfg.model_name, script)
                           THEN [gave_up EXCEPT ![id] = @ \cup {"gen"}]
                           ELSE gave_up
             /\ gen_invoked' = IF built
                               THEN [gen_invoked EXCEPT ![id] = @ + outcome.invocations]
                               ELSE gen_invoked
             \* an exception that leaves _run_generation is caught at line 220
             /\ generation_results' =
                   IF ~built \/ outcome.raised # ""
                   THEN Append(generation_results, FailedGeneration(task))
                   ELSE IF StatusRaises(status_ok)
                   THEN Append(Append(generation_results, gen_result),
                               FailedGeneration(task))
                   ELSE Append(generation_results, gen_result)
             /\ gen_outcomes' =
                   [gen_outcomes EXCEPT ![id] =
                       IF ~built \/ outcome.raised # "" THEN Append(@, FALSE)
                       ELSE IF StatusRaises(status_ok)
                       THEN Append(Append(@, gen_result.successful), FALSE)
                       ELSE Append(@, gen_result.successful)]
    /\ ti' = ti + 1
    /\ pc' = AfterGeneration(ti, Len(tasks))
    /\ UNCHANGED <<max_workers, MODEL_CONFIG, call, release, environ, health, cfg, err, fi, raw_docs, ingestion_params, retrieval_params,
                   generation_params, total_steps, current_step, gi, vectorstore,
                   tasks, results, progress_last, server, judge_invoked, resolved>>

\* ------------------------------------------------------------- releases
\* mutant: the failure of the evict request is not caught
UnloadRaisesOnFailure(evict_ok) == [raised |-> ~evict_ok, value |-> evict_ok]

\* unload_ollama_model: a status other than 200 gives False, and so does an
\* exception of the request (except Exception: return False)
unload_ollama_model(evict_ok) == [raised |-> FALSE, value |-> evict_ok]

ReleaseNeeded(name) == Contains("Ollama", name)

\* lines 223-227: Unload generator ONCE if Ollama
UnloadGenerator(status_ok, evict_ok) ==
    /\ pc = "unload_gen"
    /\ OnlyIf(ReleaseNeeded(cfg.model_name) /\ cfg.status_placeholder, status_ok)
    /\ OnlyIf(ReleaseNeeded(cfg.model_name) /\ status_ok, evict_ok)
    /\ Inject(Fault(ReleaseNeeded(cfg.model_name) /\ StatusRaises(status_ok)) + Fault(~evict_ok))
    /\ IF ~ReleaseNeeded(cfg.model_name)
       THEN /\ pc' = "phase2_init"
            /\ UNCHANGED <<err, calls, loaded>>
       ELSE IF StatusRaises(status_ok)
       THEN /\ Raise("status_sink")
            /\ UNCHANGED <<calls, loaded>>
       ELSE /\ calls' = [calls EXCEPT ![gi].gen_unload = @ + 1]
            /\ IF unload_ollama_model(evict_ok).raised
               THEN /\ Raise("release")
                    /\ UNCHANGED loaded
               ELSE /\ loaded' = AfterEvict(loaded, cfg.model_name,
                                            unload_ollama_model(evict_ok).value)
                    /\ pc' = "phase2_init"
                    /\ UNCHANGED err
    /\ UNCHANGED <<max_workers, gave_up, MODEL_CONFIG, call, release, environ, health, cfg, fi, raw_docs, ingestion_params, retrieval_params,
                   generation_params, total_steps, current_step, gi, vectorstore,
                   tasks, generation_results, ti, results, progress_last,
                   server, gen_outcomes, gen_invoked, judge_invoked, resolved>>

\* mutant: the judge pipeline is built only for a group with something to judge
JudgePipelinesIfNeeded(gen_results) ==
    IF \E i \in 1..Len(gen_results) : gen_results[i].successful THEN 1 ELSE 0

\* judge_llm = get_llm(...); judge_chain = get_judge_chain(judge_llm): one
\* pipeline, before the loop over the outcomes and whatever they are
JudgePipelines(gen_results) == 1

\* lines 229-236: Phase 2 is announced and the judge pipeline is built
StartJudging(status_ok, llm_ok, chain_ok) ==
    /\ pc = "phase2_init"
    /\ OnlyIf(cfg.status_placeholder, status_ok)
    /\ OnlyIf(status_ok /\ ~ClientRefuses(cfg.judge_model, environ), llm_ok)
    /\ OnlyIf(status_ok /\ get_llm(cfg.judge_model, environ, llm_ok), chain_ok)
    /\ Inject(Fault(StatusRaises(status_ok)
                      \/ (~ClientRefuses(cfg.judge_model, environ)
                             /\ ~(llm_ok /\ chain_ok))))
    /\ IF StatusRaises(status_ok)
       THEN /\ Raise("status_sink")
            /\ UNCHANGED <<calls, ti>>
       ELSE /\ calls' = [calls EXCEPT ![gi].judge_build =
                                      @ + JudgePipelines(generation_results)]
            /\ IF get_llm(cfg.judge_model, environ, llm_ok) /\ chain_ok
               THEN /\ ti' = 1
                    /\ pc' = IF Len(generation_results) = 0
                             THEN "unload_judge" ELSE "phase2"
                    /\ UNCHANGED err
               ELSE /\ Raise("judge_build")
                    /\ UNCHANGED ti
    /\ UNCHANGED <<max_workers, loaded, gave_up, MODEL_CONFIG, call, release, environ, health, cfg, fi, raw_docs, ingestion_params, retrieval_params,
                   generation_params, total_steps, current_step, gi, vectorstore,
                   tasks, generation_results, results, progress_last,
                   server, gen_outcomes, gen_invoked, judge_invoked, resolved>>

\* ------------------------------------------------------------- phase 2
NoScore == <<>>

JudgeScripts ==
    {<<"ok">>, <<"not_a_dict">>, <<"error">>,
     <<"RateLimitError", "ok">>, <<"RateLimitError", "InternalServerError">>}

\* _run_judging: every exception (of the pipeline, re-raised by the retry
\* wrapper) becomes a failed outcome; the score is identified by the task that
\* was judged (NoScore: a score that is no dict); the score is not read
_run_judging(table, judge_model, script, task) ==
    LET made == Invoke(script, create_retryer(get_retry_config(table, judge_model)))
        exception == IF made.outcome \in Responses THEN "" ELSE made.outcome
    IN IF exception = ""
       THEN [successful |-> TRUE,
             score |-> IF made.outcome = "ok" THEN <<task.g, task.i>> ELSE NoScore,
             invocations |-> made.invocations, raised |-> "",
             keys |-> {"successful", "score", "latency_judge"}]
       ELSE IF Caught(exception)
       THEN [successful |-> FALSE, score |-> NoScore,
             invocations |-> made.invocations, raised |-> "",
             keys |-> {"successful", "error"}]
       ELSE [successful |-> FALSE, score |-> NoScore,
             invocations |-> made.invocations, raised |-> exception,
             keys |-> {}]

\* mutant: the parameters are read from the first task of the group
ResultRecordOfFirstTask(gen_result, judge_result) ==
    [task |-> <<gen_result.task.g, gen_result.task.i>>,
     answer |-> gen_result.answer,
     score |-> judge_result.score,
     k |-> tasks[1].k,
     chunk_size |-> tasks[1].chunk_size,
     chunk_overlap |-> tasks[1].chunk_overlap,
     temperature |-> tasks[1].temperature,
     top_p |-> tasks[1].top_p]

ResultRecord(gen_result, judge_result) ==
    [task |-> <<gen_result.task.g, gen_result.task.i>>,
     answer |-> gen_result.answer,
     score |-> judge_result.score,
     k |-> gen_result.task.k,
     chunk_size |-> gen_result.task.chunk_size,
     chunk_overlap |-> gen_result.task.chunk_overlap,
     temperature |-> gen_result.task.temperature,
     top_p |-> gen_result.task.top_p]

\* mutant: the record is appended whatever the judge outcome
RecordedAlways(judge_result) == TRUE

\* if judge_result["successful"]: results.append(...); score.get(...) raises
\* on a score that is no dict
Recorded(judge_result) == judge_result.successful /\ judge_result.score # NoScore

\* what the iteration reports: nothing (a record), "Judge error" (line 271)
\* or "Judge exception" (line 277)
Reported(judge_result) ==
    IF judge_result.raised # "" THEN "judge_exception"
    ELSE IF ~judge_result.successful THEN "judge_error"
    ELSE IF judge_result.score = NoScore THEN "judge_exception"
    ELSE "record"

\* lines 238-283: one iteration of  for i, gen_result in enumerate(generation_results)
JudgeTask(script, status_ok, progress_ok) ==
    /\ pc = "phase2"
    /\ ti <= Len(generation_results)
    /\ LET gen_result == generation_results[ti]
           id == <<gen_result.task.g, gen_result.task.i>>
       IN IF ~gen_result.successful
          THEN /\ script = <<"ok">> /\ status_ok /\ progress_ok
               /\ Inject(0)
               /\ current_step' = current_step + 1
               /\ resolved' = [resolved EXCEPT ![id] = Append(@, "skipped_generation")]
               /\ UNCHANGED <<judge_invoked, results, progress_last, gave_up, loaded>>
          ELSE \E judge_result \in {_run_judging(MODEL_CONFIG, cfg.judge_model,
                                                  script, gen_result.task)} :
               LET recorded == Recorded(judge_result)
                   missing == CredentialsMissing(cfg.judge_model, environ)
               IN
               /\ missing => script = Unauthorized
               /\ Inject(IF missing THEN 0 ELSE Fault(script # <<"ok">>))
               /\ OnlyIf((recorded \/ ~judge_result.successful)
                            /\ cfg.status_placeholder, status_ok)
               /\ OnlyIf(cfg.progress_bar, progress_ok)
               /\ judge_invoked' = [judge_invoked EXCEPT
                                       ![id] = @ + judge_result.invocations]
               /\ loaded' = AfterRequest(loaded, cfg.judge_model, TRUE)
               /\ gave_up' = IF KeepsFailing(MODEL_CONFIG, cfg.judge_model, script)
                             THEN [gave_up EXCEPT ![id] = @ \cup {"judge"}]
                             ELSE gave_up
               /\ results' = IF recorded
                             THEN Append(results, ResultRecord(gen_result, judge_result))
                             ELSE results
               /\ resolved' = [resolved EXCEPT ![id] = Append(@, Reported(judge_result))]
               /\ current_step' = current_step + 1
               /\ ReportProgress(current_step')
    /\ ti' = ti + 1
    /\ pc' = IF ti = Len(generation_results) THEN "unload_judge" ELSE "phase2"
    /\ UNCHANGED <<max_workers, MODEL_CONFIG, call, release, environ, health, cfg, err, fi, raw_docs, ingestion_params, retrieval_params,
                   generation_params, total_steps, gi, vectorstore, tasks,
                   generation_results, server, gen_outcomes, calls, gen_invoked>>

\* lines 285-289: Unload judge ONCE if Ollama, then the next pair
UnloadJudge(status_ok, evict_ok) ==
    /\ pc = "unload_judge"
    /\ OnlyIf(ReleaseNeeded(cfg.judge_model) /\ cfg.status_placeholder, status_ok)
    /\ OnlyIf(ReleaseNeeded(cfg.judge_model) /\ status_ok, evict_ok)
    /\ Inject(Fault(ReleaseNeeded(cfg.judge_model) /\ StatusRaises(status_ok)) + Fault(~evict_ok))
    /\ IF ~ReleaseNeeded(cfg.judge_model)
       THEN /\ pc' = LoopHead(gi + 1, Len(ingestion_params))
            /\ gi' = gi + 1
            /\ UNCHANGED <<err, calls, loaded>>
       ELSE IF StatusRaises(status_ok)
       THEN /\ Raise("status_sink")
            /\ UNCHANGED <<calls, gi, loaded>>
       ELSE /\ calls' = [calls EXCEPT ![gi].judge_unload = @ + 1]
            /\ IF unload_ollama_model(evict_ok).raised
               THEN /\ Raise("release")
                    /\ UNCHANGED <<loaded, gi>>
               ELSE /\ loaded' = AfterEvict(loaded, cfg.judge_model,
                                            unload_ollama_model(evict_ok).value)
                    /\ pc' = LoopHead(gi + 1, Len(ingestion_params))
                    /\ gi' = gi + 1
                    /\ UNCHANGED err
    /\ UNCHANGED <<max_workers, gave_up, MODEL_CONFIG, call, release, environ, health, cfg, fi, raw_docs, ingestion_params, retrieval_params,
                   generation_params, total_steps, current_step, vectorstore,
                   tasks, generation_results, ti, results, progress_last,
                   server, gen_outcomes, gen_invoked, judge_invoked, resolved>>

\* ------------------------------------------------- one retried pipeline call
\* The retry wrapper on its own: a pipeline call of _run_generation or
\* _run_judging for any model name, any policy table and any pipeline.
MaxTransient == 5      \* most transient failures before a pipeline's final answer

Transients(n) ==
    [i \in 1..n |-> IF i % 2 = 1 THEN "RateLimitError" ELSE "InternalServerError"]

CallScripts ==
    {Transients(n) \o <<final>> : n \in 0..MaxTransient, final \in {"ok", "error"}}

GitHubGPT4o == {"GitHub", "GPT-4o"}
GPT4 == {"GPT-4"}                      \* no provider family in the name
OllamaViaGroq == {"Ollama", "Groq"}    \* two provider families in the name
CallNames == ModelNames \cup {GitHubGPT4o, GPT4, OllamaViaGroq}

IdleConfig ==
    [model_name |-> GroqLlama, judge_model |-> GroqLlama, chunk_sizes |-> <<2>>,
     chunk_overlaps |-> <<1>>, k_retrievals |-> <<1>>, temperatures |-> <<7>>,
     top_ps |-> <<9>>, file_paths |-> 0, progress_bar |-> FALSE,
     status_placeholder |-> FALSE, max_concurrency |-> DefaultConcurrency]

\* no run is under way
NoRun ==
    /\ cfg = IdleConfig
    /\ pc = "start"
    /\ err = ""
    /\ fi = 1
    /\ raw_docs = 0
    /\ ingestion_params = <<>>
    /\ retrieval_params = <<>>
    /\ generation_params = <<>>
    /\ total_steps = 0
    /\ current_step = 0
    /\ gi = 1
    /\ vectorstore = None
    /\ tasks = <<>>
    /\ generation_results = <<>>
    /\ ti = 1
    /\ results = <<>>
    /\ progress_last = NoProgress
    /\ faults = 0
    /\ server = ServerUp
    /\ gen_outcomes = [t \in TaskIdsOf(cfg) |-> <<>>]
    /\ calls = [g \in 1..Len(IngestionParamsOf(cfg)) |-> NoCalls]
    /\ gen_invoked = [t \in TaskIdsOf(cfg) |-> 0]
    /\ judge_invoked = [t \in TaskIdsOf(cfg) |-> 0]
    /\ resolved = [t \in TaskIdsOf(cfg) |-> <<>>]
    /\ gave_up = [t \in TaskIdsOf(cfg) |-> {}]
    /\ max_workers = 0
    /\ environ = {"GROQ_API_KEY"}
    /\ health = NoHealth

\* no run is under way; a pipeline, a model name and a table are given
InitCall ==
    /\ NoRun
    /\ loaded = {}
    /\ MODEL_CONFIG \in PolicyTables
    /\ release = NoRelease
    /\ call \in {[NoCall EXCEPT !.model_name = name, !.script = script,
                                 !.state = "idle"] :
                    name \in CallNames, script \in CallScripts}

RunVars == <<cfg, pc, err, fi, raw_docs, ingestion_params, retrieval_params,
             generation_params, total_steps, current_step, gi, vectorstore, tasks,
             generation_results, ti, results, progress_last, faults, server,
             gen_outcomes, calls, gen_invoked, judge_invoked, resolved,
             gave_up, loaded, max_workers, environ, health>>

\* lines 51-52 (85-86): the policy of the model and its retryer
ResolvePolicy ==
    /\ call.state = "idle"
    /\ call' = [call EXCEPT
                  !.state = "resolved",
                  !.policy = get_retry_config(MODEL_CONFIG, call.model_name),
                  !.retryer = create_retryer(
                                 get_retry_config(MODEL_CONFIG, call.model_name))]
    /\ UNCHANGED <<MODEL_CONFIG, release, RunVars>>

\* lines 56-61 (90-95): the pipeline is invoked, through the retryer if any
InvokePipeline ==
    /\ call.state = "resolved"
    /\ LET made == Invoke(call.script, call.retryer)
       IN call' = [call EXCEPT
                     !.state = IF made.outcome \in Responses
                               THEN "returned" ELSE "raised",
                     !.invocations = made.invocations,
                     !.outcome = made.outcome,
                     !.waits = made.waits]
    /\ UNCHANGED <<MODEL_CONFIG, release, RunVars>>

NextCall == ResolvePolicy \/ InvokePipeline

SpecCall == InitCall /\ [][NextCall]_vars

\* --------------------------------------- what the two call functions return
\* _run_generation and _run_judging from their first line to their return,
\* for pipelines that answer well or badly after some transient failures.
OutcomeFinals == {"ok", "no_answer", "no_context", "not_a_dict", "error"}

OutcomeScripts ==
    {Transients(n) \o <<final>> : n \in 0..MaxTransient, final \in OutcomeFinals}

\* the tables with at most a default record: it is the policy of every name
OutcomeTables == {table \in PolicyTables : DOMAIN table \subseteq {"default"}}

Roles == {"generation", "judging"}

IdleTask == [g |-> 1, i |-> 1]

InitOutcome ==
    /\ NoRun
    /\ loaded = {}
    /\ MODEL_CONFIG \in OutcomeTables
    /\ release = NoRelease
    /\ call \in {[NoCall EXCEPT !.model_name = name, !.script = script,
                                 !.state = "idle", !.role = role] :
                    name \in CallNames, script \in OutcomeScripts, role \in Roles}

\* lines 63-75 (97-105): the outcome is returned, or the exception caught
ReturnOutcome ==
    /\ call.state \in {"returned", "raised"}
    /\ call.role \in Roles
    /\ call.result = NoResult
    /\ LET outcome == IF call.role = "generation"
                      THEN _run_generation(MODEL_CONFIG, call.model_name,
                                           call.script, IdleTask)
                      ELSE _run_judging(MODEL_CONFIG, call.model_name,
                                        call.script, IdleTask)
       IN call' = [call EXCEPT !.result =
                      [returned |-> outcome.raised = "", raised |-> outcome.raised,
                       successful |-> outcome.successful, keys |-> outcome.keys]]
    /\ UNCHANGED <<MODEL_CONFIG, release, RunVars>>

NextOutcome == ResolvePolicy \/ InvokePipeline \/ ReturnOutcome

SpecOutcome == InitOutcome /\ [][NextOutcome]_vars

\* ------------------------------------------------------------- the run
Next ==
    \/ EnsureReachable
    \/ StartServer
    \/ PollServer
    \/ Startup
    \/ \E outcome \in LoadOutcomes : LoadDocument(outcome)
    \/ \E progress_ok \in BOOLEAN : SkipInvalidGroup(progress_ok)
    \/ \E split_ok \in BOOLEAN : IngestionError(split_ok)
    \/ \E status_ok \in BOOLEAN : BuildTaskList(status_ok)
    \/ \E llm_ok \in BOOLEAN, chain_ok \in BOOLEAN, script \in GenScripts,
          status_ok \in BOOLEAN : GenerateTask(llm_ok, chain_ok, script, status_ok)
    \/ \E status_ok \in BOOLEAN, evict_ok \in BOOLEAN : UnloadGenerator(status_ok, evict_ok)
    \/ \E status_ok \in BOOLEAN, llm_ok \in BOOLEAN, chain_ok \in BOOLEAN :
          StartJudging(status_ok, llm_ok, chain_ok)
    \/ \E script \in JudgeScripts, status_ok \in BOOLEAN, progress_ok \in BOOLEAN :
          JudgeTask(script, status_ok, progress_ok)
    \/ \E status_ok \in BOOLEAN, evict_ok \in BOOLEAN : UnloadJudge(status_ok, evict_ok)

Spec == Init /\ [][Next]_vars

\* ------------------------------------------- the run at other concurrency limits
\* The same run for configs that set max_concurrency above 1 (the slider goes
\* to 10) or do not have the key (the tests), here for one document, two
\* retrieval depths, two chunk sizes and both sinks.
WorkerLimits == {2, 10}

WithoutLimit(c) == [key \in DOMAIN c \ {"max_concurrency"} |-> c[key]]

PilotConfigs ==
    {c \in Configs : /\ c.status_placeholder
                     /\ c.file_paths = 1
                     /\ c.k_retrievals = <<1, 3>>
                     /\ c.chunk_sizes \in {<<1, 2>>, <<2, 2>>}}

WorkerConfigs ==
    {[c EXCEPT !.max_concurrency = limit] : c \in PilotConfigs, limit \in WorkerLimits}
        \cup {WithoutLimit(c) : c \in PilotConfigs}

InitWorkers == InitOf(WorkerConfigs)

SpecWorkers == InitWorkers /\ [][Next]_vars

\* ----------------------------------------------------- the run on wider grids
\* The same run for grids with several overlaps, temperatures and top_p
\* values.  With one document: a grid of four ingestion pairs (one invalid),
\* and two grids of four tasks in one group.  Without documents: grids whose
\* chunk and retrieval lists vary (among them pairs with overlap >= chunk_size).
Grid(cs, co, ks, t, p) ==
    [chunk_sizes |-> cs, chunk_overlaps |-> co, k_retrievals |-> ks,
     temperatures |-> t, top_ps |-> p]

FourPairs == Grid(<<2, 3>>, <<1, 2>>, <<1>>, <<7>>, <<9>>)

DocumentGrids ==
    {FourPairs,
     Grid(<<2>>, <<1>>, <<1, 3>>, <<7, 2>>, <<9>>),
     Grid(<<2>>, <<1>>, <<1>>, <<7, 2>>, <<9, 5>>)}

NoDocumentGrids ==
    {Grid(<<1>>, <<1>>, <<1, 3>>, <<7, 2>>, <<9, 5>>),
     Grid(<<2, 3>>, <<1, 2>>, <<1>>, <<7>>, <<9, 5>>),
     Grid(<<2, 3>>, <<1>>, <<1, 3>>, <<7, 2>>, <<9>>),
     Grid(<<1>>, <<1, 2>>, <<1>>, <<7>>, <<9>>)}

GridConfig(grid, f, m, j, sink) ==
    [model_name |-> m, judge_model |-> j, chunk_sizes |-> grid.chunk_sizes,
     chunk_overlaps |-> grid.chunk_overlaps, k_retrievals |-> grid.k_retrievals,
     temperatures |-> grid.temperatures, top_ps |-> grid.top_ps,
     file_paths |-> f, progress_bar |-> sink.progress_bar,
     status_placeholder |-> sink.status_placeholder,
     max_concurrency |-> DefaultConcurrency]

GridConfigs ==
    {GridConfig(grid, 0, GroqLlama, GroqLlama, sink) :
        grid \in NoDocumentGrids, sink \in Sinks}
    \cup {GridConfig(grid, 1, OllamaMistral, GroqLlama, sink) :
        grid \in DocumentGrids, sink \in Sinks}

InitGrid == InitOf(GridConfigs)

SpecGrid == InitGrid /\ [][Next]_vars

\* ------------------------------------------- the local server under requests
\* The local model server on its own.  A client built by get_llm for a display
\* name makes a request (LoadModel), or the model of a display name is released
\* the way run_batch_experiment does it for a name with "Ollama" in it
\* (ReleaseModel); the server may hold models of earlier runs.
MaxRequests == 3       \* most requests made to the local server

ServerModels == {"mistral", "llama3.2", "phi3"}

OllamaPlain == {"Ollama"}                \* no model marker in the name
OllamaBoth == {"Ollama", "Llama 3.2", "Llama 3", "Mistral"}

ServerNames ==
    {OllamaMistral, OllamaLlama32, OllamaPlain, OllamaBoth, OllamaViaGroq, GroqLlama}

RunVarsButLoaded ==
    <<cfg, pc, err, fi, raw_docs, ingestion_params, retrieval_params,
      generation_params, total_steps, current_step, gi, vectorstore, tasks,
      generation_results, ti, results, progress_last, faults, server,
      gen_outcomes, calls, gen_invoked, judge_invoked, resolved,
      gave_up, max_workers, environ, health>>

InitRelease ==
    /\ NoRun
    /\ loaded \in SUBSET ServerModels
    /\ MODEL_CONFIG \in RunTables
    /\ release = NoRelease
    /\ call = NoCall

\* llm = get_llm(model_name, ...) and a request made through it
LoadModel(model_name) ==
    /\ release.n < MaxRequests
    /\ loaded' = AfterRequest(loaded, model_name, TRUE)
    /\ release' = [at |-> "loaded", model_name |-> model_name, ok |-> TRUE,
                   before |-> loaded, target |-> target_model(model_name),
                   evicted |-> "", repeat |-> 0, n |-> release.n + 1]
    /\ UNCHANGED <<RunVarsButLoaded, MODEL_CONFIG, call>>

\* if "Ollama" in model_name: unload_ollama_model(model_name)
ReleaseModel(model_name, evict_ok) ==
    /\ release.n < MaxRequests
    /\ ReleaseNeeded(model_name)
    /\ ~unload_ollama_model(evict_ok).raised
    /\ loaded' = AfterEvict(loaded, model_name, unload_ollama_model(evict_ok).value)
    /\ release' = [at |-> "released", model_name |-> model_name, ok |-> evict_ok,
                   before |-> loaded,
                   target |-> IF release.model_name = model_name
                              THEN release.target ELSE "",
                   evicted |-> OllamaModelId(model_name),
                   repeat |-> IF release.at = "released"
                                    /\ release.model_name = model_name
                              THEN release.repeat + 1 ELSE 1,
                   n |-> release.n + 1]
    /\ UNCHANGED <<RunVarsButLoaded, MODEL_CONFIG, call>>

NextRelease ==
    \/ \E model_name \in ServerNames : LoadModel(model_name)
    \/ \E model_name \in ServerNames, evict_ok \in BOOLEAN :
          ReleaseModel(model_name, evict_ok)

SpecRelease == InitRelease /\ [][NextRelease]_vars

TypeOK ==
    /\ pc \in {"start", "load", "ingest", "phase1", "unload_gen", "phase2_init",
               "phase2", "unload_judge", "returned", "raised"}
    /\ current_step \in Nat
    /\ total_steps \in Nat

\* ================================================================ claims
TaskIds == DOMAIN resolved

Groups == DOMAIN calls

GroupTasks(g) == {t \in TaskIds : t[1] = g}

Finished == pc \in {"returned", "raised"}

StartupErrors == {"ollama_unreachable", "load_failed", "no_documents"}

\* the run passed its startup checks (local server reachable, documents loaded)
PassedStartup == pc \notin {"start", "load"} /\ err \notin StartupErrors

HasRecord(t) == \E n \in 1..Len(results) : results[n].task = t

GenerationSucceeded(t) == \E n \in 1..Len(gen_outcomes[t]) : gen_outcomes[t][n]

GenerationFailed(t) == gen_outcomes[t] # <<>> /\ ~GenerationSucceeded(t)

GroupSkipped(g) ==
    \E t \in GroupTasks(g) : \E n \in 1..Len(resolved[t]) : resolved[t][n] = "skipped_group"

LocalGenerator == "Ollama" \in cfg.model_name

LocalJudge == "Ollama" \in cfg.judge_model

PairOf(g) == IngestionParamsOf(cfg)[g]

PairIsInvalid(g) == cfg.file_paths > 0 /\ PairOf(g)[2] >= PairOf(g)[1]

QuotaOfConfig ==
    (IF cfg.file_paths > 0 THEN Len(cfg.k_retrievals) ELSE 1)
        * Len(cfg.temperatures) * Len(cfg.top_ps)

\* C1: in every finished run that passed its startup checks, a task whose
\* generation failed was never judged and has no record, and every other task
\* of a group that was not skipped has a generation outcome and, when its
\* generation succeeded, was judged.
C1_FailedGenerationIsolated ==
    (Finished /\ PassedStartup) =>
        \A t \in TaskIds :
            GenerationFailed(t) =>
                /\ judge_invoked[t] = 0
                /\ ~HasRecord(t)
                /\ \A u \in TaskIds \ {t} :
                       ~GroupSkipped(u[1]) /\ ~PairIsInvalid(u[1]) =>
                           /\ gen_outcomes[u] # <<>>
                           /\ GenerationSucceeded(u) => judge_invoked[u] > 0

\* C2: in every group each model is released at most once; the generator is
\* released only when every task of the group has its generation outcome and
\* before any judge call of the group, no generation pipeline of the group is
\* built or invoked after it, a judge call is made only after the release of a
\* local generator and before the release of the judge, the judge is released
\* only when every successful generation of the group was judged, and a group
\* starts generating only after the judge release of the groups before it.
C2_ReleaseOrder ==
    [][\A g \in Groups :
        /\ calls'[g].gen_unload <= 1
        /\ calls'[g].judge_unload <= 1
        /\ calls'[g].gen_unload > calls[g].gen_unload =>
              /\ \A t \in GroupTasks(g) : gen_outcomes[t] # <<>>
              /\ \A t \in GroupTasks(g) : judge_invoked[t] = 0
        /\ (\/ calls'[g].gen_build > calls[g].gen_build
            \/ \E t \in GroupTasks(g) : gen_invoked'[t] > gen_invoked[t]) =>
              /\ calls[g].gen_unload = 0
              /\ calls[g].judge_unload = 0
              /\ \A h \in Groups :
                    h < g /\ LocalJudge /\ calls[h].judge_build > 0 =>
                        calls[h].judge_unload = 1
        /\ (\E t \in GroupTasks(g) : judge_invoked'[t] > judge_invoked[t]) =>
              /\ calls[g].judge_unload = 0
              /\ LocalGenerator => calls[g].gen_unload = 1
        /\ calls'[g].judge_unload > calls[g].judge_unload =>
              \A t \in GroupTasks(g) : GenerationSucceeded(t) => judge_invoked[t] > 0
      ]_vars

\* C2 witness: a group with two tasks was generated, released, judged and
\* released, and the next group has started generating
C2_Witness ==
    \E g \in Groups :
        /\ g + 1 \in Groups
        /\ calls[g].gen_unload = 1
        /\ calls[g].judge_unload = 1
        /\ <<g, 2>> \in TaskIds
        /\ judge_invoked[<<g, 1>>] = 1
        /\ judge_invoked[<<g, 2>>] = 1
        /\ gen_invoked[<<g + 1, 1>>] = 1

DistinctValidPairs ==
    {PairOf(g) : g \in {h \in Groups : ~PairIsInvalid(h)}}

RECURSIVE BuildsUpTo(_, _)
BuildsUpTo(pair, g) ==
    IF g = 0 THEN 0
    ELSE (IF PairOf(g) = pair THEN calls[g].build ELSE 0) + BuildsUpTo(pair, g - 1)

BuildsOf(pair) == BuildsUpTo(pair, Cardinality(Groups))

\* C3: when a run with documents returns, create_vectorstore has been invoked
\* exactly once for every distinct valid (chunk_size, chunk_overlap) pair
\* (stated for the runs in which every collaborator call succeeds).
C3_OneBuildPerDistinctPair ==
    (pc = "returned" /\ err = "" /\ faults = 0 /\ cfg.file_paths > 0) =>
        \A pair \in DistinctValidPairs : BuildsOf(pair) = 1

\* C4: for a pair with overlap >= chunk_size (documents supplied) the splitter
\* and the index builder are never called, no task of the pair gets a pipeline,
\* a generation or a judge call, and the step in which the run passes the pair
\* adds |k_retrievals| x |temperatures| x |top_ps| to the step counter.
C4_InvalidPairSkipped ==
    [][\A g \in Groups :
        PairIsInvalid(g) =>
            /\ calls'[g] = NoCalls
            /\ \A t \in GroupTasks(g) :
                  /\ gen_invoked'[t] = 0
                  /\ judge_invoked'[t] = 0
                  /\ gen_outcomes'[t] = <<>>
                  /\ ~HasRecord(t)'
            /\ (gi = g /\ pc = "ingest") =>
                  /\ gi' = g + 1
                  /\ current_step' = current_step
                        + Len(cfg.k_retrievals) * Len(cfg.temperatures) * Len(cfg.top_ps)
      ]_vars

\* C4 witness: an invalid pair was passed and the pair after it was processed
C4_Witness ==
    \E g \in Groups :
        /\ PairIsInvalid(g)
        /\ g + 1 \in Groups
        /\ gi > g + 1
        /\ current_step >= 2 * QuotaOfConfig
        /\ calls[g + 1].build = 1

ValidGroupCount ==
    IF cfg.file_paths > 0
    THEN Cardinality({g \in Groups : ~PairIsInvalid(g)})
    ELSE 1

\* C5 as claimed: total_steps is the sum of the task quota over the valid
\* ingestion groups only.
C5_TotalStepsOverValidGroups ==
    (pc # "start" /\ err # "ollama_unreachable") =>
        total_steps = ValidGroupCount * QuotaOfConfig

\* C5 amended: total_steps is the task quota times the number of all ingestion
\* pairs of the grid, valid or not (one pair when no documents are supplied).
C5_TotalStepsOverAllGroups ==
    (pc # "start" /\ err # "ollama_unreachable") =>
        total_steps =
            (IF cfg.file_paths > 0
             THEN Len(cfg.chunk_sizes) * Len(cfg.chunk_overlaps) ELSE 1)
                * QuotaOfConfig

\* C5 witness: the total of a grid with a valid and an invalid pair was computed
C5_Witness ==
    /\ pc # "start"
    /\ err = ""
    /\ \E g \in Groups : PairIsInvalid(g)
    /\ \E g \in Groups : ~PairIsInvalid(g)
    /\ total_steps = 2 * QuotaOfConfig

\* C6: when a run that passed its startup checks returns, the last value
\* passed to the progress sink is 1.0.
C6_FinalProgressIsOne ==
    (pc = "returned" /\ PassedStartup /\ cfg.progress_bar) =>
        progress_last = <<total_steps, total_steps>>

\* C7: at the end of every run that passed its startup checks each task of the
\* grid has exactly one resolution.
C7_ExactlyOneResolution ==
    (Finished /\ PassedStartup) => \A t \in TaskIds : Len(resolved[t]) = 1

\* C8: a failure of the status sink never makes the run raise.
C8_SinkFailureSwallowed == ~(pc = "raised" /\ err = "status_sink")

NothingDone ==
    /\ \A g \in Groups : calls[g] = NoCalls
    /\ \A t \in TaskIds :
          gen_invoked[t] = 0 /\ judge_invoked[t] = 0 /\ gen_outcomes[t] = <<>>

\* C9 as claimed: a failed load_document makes the run raise.
C9_LoadFailureRaises == err = "load_failed" => pc = "raised"

\* C9 amended: a failed load_document makes the run return an empty list at
\* once, without raising: nothing is split, built, generated, judged or
\* released, and no progress value is reported.
C9_LoadFailureReturnsEmpty ==
    err = "load_failed" =>
        /\ pc = "returned"
        /\ results = <<>>
        /\ NothingDone
        /\ progress_last = NoProgress

\* C9 witness: the second of two documents failed to load
C9_Witness == err = "load_failed" /\ fi = 3 /\ raw_docs = 1 /\ pc = "returned"

CannotReachOrStart(env) ==
    /\ env.first # "200"
    /\ env.second # "200"
    /\ ~env.has_exe \/ ~env.popen_ok \/ env.up_at > PollLimit

\* C10: when the generator or the judge is locally hosted and the local server
\* can be neither reached nor started, the run returns an empty list without
\* raising and has loaded no document, built no index and made no generation,
\* judge or release call.
C10_UnreachableServerReturnsEmpty ==
    (pc # "start" /\ (LocalGenerator \/ LocalJudge) /\ CannotReachOrStart(server)) =>
        /\ pc = "returned"
        /\ results = <<>>
        /\ fi = 1
        /\ raw_docs = 0
        /\ NothingDone

\* C10 witness: only the judge is local, the server never answers, and the run
\* with documents has returned
C10_Witness ==
    /\ pc = "returned"
    /\ err = "ollama_unreachable"
    /\ ~LocalGenerator
    /\ LocalJudge
    /\ cfg.file_paths > 0
    /\ server.up_at > PollLimit
    /\ server.has_exe


\* ------------------------------------------------- claims on SpecCall
CallDone == call.state \in {"returned", "raised"}

RetryEnabled(policy) == "enable_retry" \in DOMAIN policy /\ policy.enable_retry

MaxAttemptsOf(policy) ==
    IF "max_attempts" \in DOMAIN policy THEN policy.max_attempts ELSE 5

\* the pipeline of the call fails FailuresBefore times with a transient error
\* and then gives FinalAnswer
FailuresBefore == Len(call.script) - 1

FinalAnswer == call.script[Len(call.script)]

\* C11: with retries enabled and max_attempts = m, a pipeline that fails n < m
\* times with a transient error and then succeeds is invoked exactly n + 1
\* times and the call returns its response; a pipeline that fails with a
\* non-transient error (at once, or after n < m transient ones) is not invoked
\* again and the call raises that error.
C11_RetryUntilSuccess ==
    (CallDone /\ RetryEnabled(call.policy)
              /\ FailuresBefore < MaxAttemptsOf(call.policy)) =>
        /\ call.invocations = FailuresBefore + 1
        /\ call.outcome = FinalAnswer
        /\ FinalAnswer = "ok" => call.state = "returned"
        /\ FinalAnswer = "error" => call.state = "raised"

\* C11 witness: three attempts allowed, two transient failures, then success
C11_Witness ==
    /\ call.state = "returned"
    /\ RetryEnabled(call.policy)
    /\ MaxAttemptsOf(call.policy) = 3
    /\ call.script = <<"RateLimitError", "InternalServerError", "ok">>
    /\ call.invocations = 3

\* the attempts the policy table allows a call of the model
AttemptsAllowed(model_name) == MaxAttemptsOf(get_retry_config(MODEL_CONFIG, model_name))

\* C12: the step in which a generation (judge) call of a task meets a transient
\* failure at every attempt allowed makes exactly max_attempts invocations of
\* the pipeline, appends only failed outcomes for that task (advances the step
\* counter by one), adds no record, and goes on to the next task of the phase
\* without raising; such a task never has a record.
C12_ExhaustedRetriesFailOneTask ==
    [][\A t \in TaskIds :
        /\ ("gen" \in gave_up'[t] /\ "gen" \notin gave_up[t]) =>
              /\ gen_invoked'[t] = gen_invoked[t] + AttemptsAllowed(cfg.model_name)
              /\ Len(gen_outcomes'[t]) > Len(gen_outcomes[t])
              /\ \A n \in (Len(gen_outcomes[t]) + 1)..Len(gen_outcomes'[t]) :
                    ~gen_outcomes'[t][n]
              /\ results' = results
              /\ ti' = ti + 1
              /\ pc' = IF ti < Len(tasks) THEN "phase1" ELSE "unload_gen"
              /\ err' = err
        /\ ("judge" \in gave_up'[t] /\ "judge" \notin gave_up[t]) =>
              /\ judge_invoked'[t] = judge_invoked[t] + AttemptsAllowed(cfg.judge_model)
              /\ results' = results
              /\ current_step' = current_step + 1
              /\ ti' = ti + 1
              /\ pc' = IF ti < Len(generation_results) THEN "phase2" ELSE "unload_judge"
              /\ err' = err
        /\ gave_up'[t] # {} => ~HasRecord(t)'
      ]_vars

\* C12 witness: the generation call of one task and the judge call of another
\* gave up after their two attempts, and a task after them has its record
C12_Witness ==
    /\ "gen" \in gave_up[<<1, 1>>]
    /\ gen_invoked[<<1, 1>>] = 2
    /\ <<1, 2>> \in TaskIds
    /\ "judge" \in gave_up[<<1, 2>>]
    /\ judge_invoked[<<1, 2>>] = 2
    /\ <<2, 1>> \in TaskIds
    /\ HasRecord(<<2, 1>>)

RECURSIVE SumBuilds(_)
SumBuilds(g) == IF g = 0 THEN 0 ELSE calls[g].build + SumBuilds(g - 1)

RecordsOf(t) == {n \in 1..Len(results) : results[n].task = t}

\* C13: when documents are supplied and no collaborator call of the run has
\* failed, the returned list has exactly one record for every task of every
\* valid group and none besides, that is (valid groups) x |k_retrievals| x
\* |temperatures| x |top_ps| records, and create_vectorstore was called once
\* per valid group.
C13_OneRecordPerTask ==
    (pc = "returned" /\ err = "" /\ faults = 0 /\ cfg.file_paths > 0
        /\ ~CredentialsMissing(cfg.model_name, environ)
        /\ ~CredentialsMissing(cfg.judge_model, environ)) =>
        /\ Len(results) = ValidGroupCount * Len(cfg.k_retrievals)
                             * Len(cfg.temperatures) * Len(cfg.top_ps)
        /\ \A t \in TaskIds :
              Cardinality(RecordsOf(t)) = IF PairIsInvalid(t[1]) THEN 0 ELSE 1
        /\ SumBuilds(Cardinality(Groups)) = ValidGroupCount

\* C13 witness: two valid chunk sizes, one overlap, two retrieval depths: four
\* records and two index builds
C13_Witness ==
    /\ pc = "returned"
    /\ faults = 0
    /\ cfg.file_paths = 1
    /\ cfg.chunk_sizes = <<2, 2>>
    /\ cfg.k_retrievals = <<1, 3>>
    /\ Len(results) = 4
    /\ calls[1].build = 1
    /\ calls[2].build = 1

\* the parameters of task t, read off the configuration
KOf(t) ==
    IF cfg.file_paths > 0
    THEN cfg.k_retrievals[((t[2] - 1) \div (Len(cfg.temperatures) * Len(cfg.top_ps))) + 1]
    ELSE 0

TemperatureOf(t) ==
    cfg.temperatures[(((t[2] - 1) % (Len(cfg.temperatures) * Len(cfg.top_ps)))
                        \div Len(cfg.top_ps)) + 1]

TopPOf(t) == cfg.top_ps[((t[2] - 1) % Len(cfg.top_ps)) + 1]

\* C14: every record of the result list carries the chunk size, overlap, k,
\* temperature and top_p of its task, the answer generated for that task and
\* the score given to that task; a task with a record had its generation
\* pipeline invoked, and with retries disabled for the generator no task's
\* generation pipeline is invoked more than once (exactly once for a task with
\* a record).
C14_RecordCarriesItsTask ==
    /\ \A n \in 1..Len(results) :
          LET t == results[n].task
          IN /\ t \in TaskIds
             /\ results[n].chunk_size = PairOf(t[1])[1]
             /\ results[n].chunk_overlap = PairOf(t[1])[2]
             /\ results[n].k = KOf(t)
             /\ results[n].temperature = TemperatureOf(t)
             /\ results[n].top_p = TopPOf(t)
             /\ results[n].answer = t
             /\ results[n].score = t
             /\ gen_invoked[t] >= 1
             /\ judge_invoked[t] >= 1
    /\ ~RetryEnabled(get_retry_config(MODEL_CONFIG, cfg.model_name)) =>
          \A t \in TaskIds :
              /\ gen_invoked[t] <= 1
              /\ HasRecord(t) => gen_invoked[t] = 1

\* C14 witness: with retries disabled for the generator, the second task of a
\* group (k = 3) has its record after one invocation of its pipeline
C14_Witness ==
    /\ ~RetryEnabled(get_retry_config(MODEL_CONFIG, cfg.model_name))
    /\ \E n \in 1..Len(results) :
          /\ results[n].task = <<1, 2>>
          /\ results[n].k = 3
          /\ results[n].chunk_size = 2
    /\ gen_invoked[<<1, 2>>] = 1

Tagged(t, tag) == \E n \in 1..Len(resolved[t]) : resolved[t][n] = tag

JudgeFailed(t) == Tagged(t, "judge_error") \/ Tagged(t, "judge_exception")

\* C15: a task has a record only if its generation succeeded and its judge
\* call was made and did not fail; the step in which the judge call of a task
\* fails adds no record, advances the step counter by one and goes on to the
\* next generation outcome without raising; and when the judging loop of a
\* group is left, every task of the group whose generation succeeded was
\* judged.
C15_RecordNeedsBothOutcomes ==
    [][\A t \in TaskIds :
        /\ HasRecord(t)' =>
              /\ GenerationSucceeded(t)'
              /\ judge_invoked'[t] >= 1
              /\ ~JudgeFailed(t)'
        /\ (JudgeFailed(t)' /\ ~JudgeFailed(t)) =>
              /\ results' = results
              /\ current_step' = current_step + 1
              /\ ti' = ti + 1
              /\ pc' = IF ti < Len(generation_results) THEN "phase2" ELSE "unload_judge"
              /\ err' = err
        /\ (pc = "phase2" /\ pc' # "phase2" /\ t[1] = gi /\ GenerationSucceeded(t)) =>
              /\ pc' = "unload_judge"
              /\ judge_invoked'[t] >= 1
      ]_vars

\* C15 witness: the judge call of the first task of a group failed and the
\* second task of the group has its record
C15_Witness ==
    /\ <<1, 2>> \in TaskIds
    /\ Tagged(<<1, 1>>, "judge_error")
    /\ ~HasRecord(<<1, 1>>)
    /\ HasRecord(<<1, 2>>)
    /\ current_step = 2

\* C16: a run that passed its startup checks ends by returning after its last
\* group: no failure of a generation pipeline, of the judge pipeline (built or
\* invoked), of an index build or of a release makes it raise or return early
\* (the failures of the status sink are the matter of C8).
C16_RunsToCompletion ==
    (Finished /\ PassedStartup /\ err # "status_sink") =>
        /\ pc = "returned"
        /\ err = ""
        /\ gi = Len(ingestion_params) + 1

\* the splitter or the index builder failed for the valid pair of group g
IngestionFailed(g) == ~PairIsInvalid(g) /\ GroupSkipped(g)

\* C17: when split_documents or create_vectorstore fails for a valid pair, no
\* task of that group is ever generated or judged or gets a record; the step
\* in which it fails advances the step counter by the group's task quota and
\* passes to the next pair (or returns after the last one) without raising.
C17_IngestionFailureLosesOneGroup ==
    [][\A g \in Groups :
        /\ IngestionFailed(g)' =>
              /\ calls'[g].gen_build = 0
              /\ calls'[g].judge_build = 0
              /\ \A t \in GroupTasks(g) :
                    /\ gen_invoked'[t] = 0
                    /\ judge_invoked'[t] = 0
                    /\ gen_outcomes'[t] = <<>>
                    /\ ~HasRecord(t)'
        /\ (IngestionFailed(g)' /\ ~IngestionFailed(g)) =>
              /\ gi = g
              /\ current_step' = current_step + QuotaOfConfig
              /\ results' = results
              /\ gi' = g + 1
              /\ pc' = IF g + 1 \in Groups THEN "ingest" ELSE "returned"
              /\ err' = err
      ]_vars

\* C17 witness: the index of the first group could not be built and the
\* second group was processed to its record
C17_Witness ==
    /\ 2 \in Groups
    /\ IngestionFailed(1)
    /\ calls[1].split = 1
    /\ calls[2].build = 1
    /\ HasRecord(<<2, 1>>)
    /\ pc = "returned"

\* C18: when generator and judge are two different locally hosted models, the
\* local model server never holds both: at most one model is loaded in every
\* state of the run, also after an evict request that failed.
C18_OneLocalModelLoaded ==
    (LocalGenerator /\ LocalJudge /\ cfg.model_name # cfg.judge_model) =>
        Cardinality(loaded) <= 1

\* C19: whatever the concurrency limit of the config (absent, 2 or 10): a
\* generation pipeline of a group is built only when the group's index is
\* built, before the generator release and before any judge call of the group;
\* the generator is released only when every task of the group has its
\* generation outcome; and a judge call is made only when every task of the
\* group has its generation outcome and a local generator has been released.
C19_OrderAtAnyConcurrency ==
    [][\A g \in Groups :
        /\ calls'[g].gen_build > calls[g].gen_build =>
              /\ cfg.file_paths > 0 => (calls[g].build = 1 /\ vectorstore = g)
              /\ calls[g].gen_unload = 0
              /\ calls[g].judge_build = 0
              /\ \A t \in GroupTasks(g) : judge_invoked[t] = 0
        /\ calls'[g].gen_unload > calls[g].gen_unload =>
              /\ \A t \in GroupTasks(g) : gen_outcomes[t] # <<>>
              /\ calls[g].gen_build = Cardinality(GroupTasks(g))
        /\ (\E t \in GroupTasks(g) : judge_invoked'[t] > judge_invoked[t]) =>
              /\ \A t \in GroupTasks(g) : gen_outcomes[t] # <<>>
              /\ LocalGenerator => calls[g].gen_unload = 1
      ]_vars

\* C19 witness: with a limit of 10 a group of two tasks was generated, released
\* and judged
C19_Witness ==
    /\ max_workers = 10
    /\ LocalGenerator
    /\ calls[1].build = 1
    /\ calls[1].gen_build = 2
    /\ calls[1].gen_unload = 1
    /\ judge_invoked[<<1, 2>>] = 1

\* C21: when the API key of the generator or of the judge is not set, no
\* generation call and no judge call is ever made in the run.
C21_MissingCredentialsAbort ==
    (CredentialsMissing(cfg.model_name, environ)
        \/ CredentialsMissing(cfg.judge_model, environ)) =>
            \A t \in TaskIds : gen_invoked[t] = 0 /\ judge_invoked[t] = 0

\* C22: the step that makes a release call, whether the evict request succeeds
\* or fails, never raises: after the generator's release the run is at the
\* judging phase of the same group, after the judge's release at the next pair
\* (or has returned after the last one); and no run ever ends on a release.
C22_FailedReleaseGoesOn ==
    [][/\ \A g \in Groups :
            /\ calls'[g].gen_unload > calls[g].gen_unload =>
                  /\ pc' = "phase2_init"
                  /\ gi' = g
                  /\ err' = err
            /\ calls'[g].judge_unload > calls[g].judge_unload =>
                  /\ pc' = IF g + 1 \in Groups THEN "ingest" ELSE "returned"
                  /\ gi' = g + 1
                  /\ err' = err
       /\ err' # "release"
      ]_vars

\* C22 witness: both evict requests of the first group failed (both models are
\* still loaded after the two releases) and the run is at the second pair
C22_Witness ==
    /\ 2 \in Groups
    /\ calls[1].gen_unload = 1
    /\ calls[1].judge_unload = 1
    /\ loaded = {"mistral", "llama3.2"}
    /\ judge_invoked[<<1, 1>>] = 1
    /\ gi = 2
    /\ pc = "ingest"

GenerationPairs == Len(cfg.temperatures) * Len(cfg.top_ps)

\* C23: in a run without documents, whatever the chunk and retrieval lists of
\* the config hold: there is one ingestion pair, which is never skipped; no
\* document is loaded, nothing is split and no index is built; total_steps is
\* |temperatures| x |top_ps|; the task list of the group has that many tasks,
\* each with k = 0 and no index; every record has k = 0; and a run in which no
\* call fails returns |temperatures| x |top_ps| records.
C23_NoDocumentsOneGroup ==
    (cfg.file_paths = 0 /\ pc # "start" /\ err # "ollama_unreachable") =>
        /\ pc # "load" /\ fi = 1 /\ raw_docs = 0
        /\ Len(ingestion_params) = 1
        /\ Groups = {1}
        /\ calls[1].split = 0 /\ calls[1].build = 0
        /\ vectorstore = None
        /\ ~GroupSkipped(1)
        /\ total_steps = GenerationPairs
        /\ Cardinality(TaskIds) = GenerationPairs
        /\ tasks # <<>> =>
              /\ Len(tasks) = GenerationPairs
              /\ \A i \in 1..Len(tasks) : tasks[i].k = 0 /\ tasks[i].vectorstore = None
        /\ \A n \in 1..Len(results) : results[n].k = 0
        /\ (pc = "returned" /\ faults = 0
                /\ ~CredentialsMissing(cfg.model_name, environ)
                /\ ~CredentialsMissing(cfg.judge_model, environ)) =>
              /\ Len(results) = GenerationPairs
              /\ \A t \in TaskIds : gen_invoked[t] >= 1 /\ judge_invoked[t] >= 1

\* C23 witness: without documents a config whose only pair has overlap =
\* chunk_size and which names two retrieval depths has returned four records
C23_Witness ==
    /\ cfg.file_paths = 0
    /\ cfg.chunk_sizes = <<1>>
    /\ cfg.chunk_overlaps = <<1>>
    /\ cfg.k_retrievals = <<1, 3>>
    /\ pc = "returned"
    /\ Len(results) = 4
    /\ results[4].k = 0

\* C24: total_steps is set by the startup step and by no step after it, and
\* current_step never decreases; every value <<n, d>> (the fraction n / d)
\* passed to the progress sink has d = total_steps > 0 and
\* n = min(current_step, total_steps), so it lies in [0, 1], and it is not less
\* than the value passed before it.
C24_ProgressMonotone ==
    [][/\ pc # "start" => total_steps' = total_steps
       /\ current_step' >= current_step
       /\ progress_last' # progress_last =>
             /\ progress_last'[2] = total_steps
             /\ progress_last'[2] > 0
             /\ progress_last'[1] =
                   (IF current_step' <= total_steps THEN current_step' ELSE total_steps)
             /\ 0 <= progress_last'[1]
             /\ progress_last'[1] <= progress_last'[2]
             /\ progress_last # NoProgress =>
                   progress_last[1] * progress_last'[2]
                       <= progress_last'[1] * progress_last[2]
      ]_vars

\* C24 witness: the step counter has passed total_steps and the value 1.0 was
\* reported after a smaller one
C24_Witness ==
    /\ current_step > total_steps
    /\ total_steps = 2
    /\ progress_last = <<2, 2>>
    /\ Len(results) >= 1

\* the index of group g: the one built for its own pair (None without documents)
OwnIndex(g) == IF cfg.file_paths > 0 THEN g ELSE None

\* C25: every generation pipeline of a group is built on the index that was
\* built for that group's own pair and on no other; the tasks of the group's
\* task list all carry that one index; the index was built exactly once, and
\* before the step that builds the first generation pipeline of the group.
C25_GroupUsesItsOwnIndex ==
    [][\A g \in Groups :
        /\ calls'[g].bound \subseteq {OwnIndex(g)}
        /\ calls'[g].build <= 1
        /\ (gi' = g /\ pc' \in {"phase1", "unload_gen"}) =>
              \A i \in 1..Len(tasks') : tasks'[i].vectorstore = OwnIndex(g)
        /\ calls'[g].gen_build > calls[g].gen_build =>
              /\ gi = g
              /\ cfg.file_paths > 0 => (calls[g].build = 1 /\ calls[g].split = 1)
              /\ vectorstore = OwnIndex(g)
      ]_vars

\* C25 witness: the pipelines of the two tasks of the second group were built
\* on the second group's index
C25_Witness ==
    /\ 2 \in Groups
    /\ calls[1].bound = {1}
    /\ calls[2].bound = {2}
    /\ calls[2].gen_build = 2
    /\ calls[2].build = 1

\* the chunk size and overlap at position g of the grid, read off the config
ChunkSizeAt(g) ==
    IF cfg.file_paths > 0
    THEN cfg.chunk_sizes[((g - 1) \div Len(cfg.chunk_overlaps)) + 1] ELSE None

ChunkOverlapAt(g) ==
    IF cfg.file_paths > 0
    THEN cfg.chunk_overlaps[((g - 1) % Len(cfg.chunk_overlaps)) + 1] ELSE None

\* task t comes before task u in grid order
Before(t, u) == t[1] < u[1] \/ (t[1] = u[1] /\ t[2] < u[2])

Generated(t) == gen_outcomes[t] # <<>>

\* C26: the records of the result list are in grid order (groups in
\* chunk_sizes-major, chunk_overlaps-minor order, tasks of a group by
\* k_retrievals, then temperatures, then top_ps) and each carries the
\* parameters of its grid position; a step generates for at most one task, the
\* next one of its group in grid order, and a step judges at most one task,
\* after the tasks of the group before it and before those after it.
C26_GridOrder ==
    [][/\ \A n \in 1..Len(results') :
             LET t == results'[n].task
             IN /\ results'[n].chunk_size = ChunkSizeAt(t[1])
                /\ results'[n].chunk_overlap = ChunkOverlapAt(t[1])
                /\ results'[n].k = KOf(t)
                /\ results'[n].temperature = TemperatureOf(t)
                /\ results'[n].top_p = TopPOf(t)
                /\ \A m \in 1..(n - 1) : Before(results'[m].task, t)
       /\ Cardinality({t \in TaskIds : gen_outcomes'[t] # gen_outcomes[t]}) <= 1
       /\ Cardinality({t \in TaskIds : judge_invoked'[t] # judge_invoked[t]}) <= 1
       /\ \A t \in TaskIds :
             /\ (gen_outcomes'[t] # gen_outcomes[t] \/ gen_invoked'[t] # gen_invoked[t]) =>
                   /\ t = <<gi, ti>>
                   /\ ~Generated(t)
                   /\ \A u \in TaskIds :
                         /\ (u[1] = t[1] /\ Before(u, t)) => Generated(u)
                         /\ Before(t, u) => (~Generated(u) /\ gen_invoked[u] = 0)
             /\ judge_invoked'[t] # judge_invoked[t] =>
                   /\ judge_invoked[t] = 0
                   /\ \A u \in TaskIds :
                         /\ (u[1] = t[1] /\ Before(u, t) /\ GenerationSucceeded(u)) =>
                               judge_invoked[u] > 0
                         /\ Before(t, u) => judge_invoked[u] = 0
      ]_vars

\* C26 witness: the grid of sizes (2, 3) and overlaps (1, 2) has returned the
\* records of its pairs (2, 1), (3, 1) and (3, 2), in that order
C26_Witness ==
    /\ cfg.file_paths = 1
    /\ cfg.chunk_sizes = <<2, 3>>
    /\ cfg.chunk_overlaps = <<1, 2>>
    /\ pc = "returned"
    /\ Len(results) = 3
    /\ results[1].task = <<1, 1>> /\ results[1].chunk_size = 2
    /\ results[2].task = <<3, 1>> /\ results[2].chunk_size = 3
    /\ results[2].chunk_overlap = 1
    /\ results[3].task = <<4, 1>> /\ results[3].chunk_overlap = 2

WaitMinOf(policy) == IF "wait_min" \in DOMAIN policy THEN policy.wait_min ELSE 4

WaitMaxOf(policy) == IF "wait_max" \in DOMAIN policy THEN policy.wait_max ELSE 60

RECURSIVE TwoToThe(_)
TwoToThe(n) == IF n = 0 THEN 1 ELSE 2 * TwoToThe(n - 1)

\* C27: a call made through the retry wrapper sleeps once after each failed
\* attempt but the last one it makes (none after the max_attempts-th attempt
\* and none after a successful one, so at most max_attempts - 1 times); the
\* n-th sleep is 2 * 2^(n-1) seconds clamped into [wait_min, wait_max], so it
\* lies in that interval and the sleeps never decrease; a call made without
\* the wrapper never sleeps.
C27_WaitsAreClampedExponential ==
    CallDone =>
        /\ ~RetryEnabled(call.policy) => call.waits = <<>>
        /\ RetryEnabled(call.policy) =>
              /\ Len(call.waits) = call.invocations - 1
              /\ Len(call.waits) <= MaxAttemptsOf(call.policy) - 1
              /\ \A n \in 1..Len(call.waits) :
                    /\ call.script[n] \in {"RateLimitError", "InternalServerError"}
                    /\ WaitMinOf(call.policy) <= call.waits[n]
                    /\ call.waits[n] <= WaitMaxOf(call.policy)
                    /\ call.waits[n] =
                          (IF 2 * TwoToThe(n - 1) < WaitMinOf(call.policy)
                           THEN WaitMinOf(call.policy)
                           ELSE IF 2 * TwoToThe(n - 1) > WaitMaxOf(call.policy)
                           THEN WaitMaxOf(call.policy)
                           ELSE 2 * TwoToThe(n - 1))
                    /\ n > 1 => call.waits[n - 1] <= call.waits[n]

\* C27 witness: with wait_min 5, wait_max 10 and four attempts allowed, a
\* pipeline that kept failing was given up after sleeps of 5, 5 and 8 seconds
C27_Witness ==
    /\ call.state = "raised"
    /\ WaitMinOf(call.policy) = 5
    /\ WaitMaxOf(call.policy) = 10
    /\ call.invocations = 4
    /\ call.outcome \in {"RateLimitError", "InternalServerError"}
    /\ call.waits = <<5, 5, 8>>

\* the most invocations the policy table allows one call of the model
InvocationLimit(model_name) ==
    IF RetryEnabled(get_retry_config(MODEL_CONFIG, model_name))
    THEN AttemptsAllowed(model_name) ELSE 1

\* how far the run has come: the health check first, then the documents, then pair by pair the
\* build, the generation loop, the release, the judging loop (which has at most
\* two outcomes per task) and the release; a finished run is at the end
PairSpan == 3 * QuotaOfConfig + 4

\* the health check comes first: two checks and at most PollLimit polls
HealthSpan == PollLimit + 3

EndOfRun == HealthSpan + cfg.file_paths + 1 + Cardinality(Groups) * PairSpan

Progression ==
    IF pc = "start"
    THEN (IF health.at = "idle" THEN 0
          ELSE IF health.at = "start_ollama_server" THEN 1
          ELSE IF health.at = "poll" THEN 2 + health.polls
          ELSE HealthSpan - 1)
    ELSE IF pc = "load" THEN HealthSpan + fi
    ELSE IF Finished THEN EndOfRun
    ELSE HealthSpan + cfg.file_paths + 1 + (gi - 1) * PairSpan
            + (IF pc = "ingest" THEN 0
               ELSE IF pc = "phase1" THEN ti
               ELSE IF pc = "unload_gen" THEN QuotaOfConfig + 1
               ELSE IF pc = "phase2_init" THEN QuotaOfConfig + 2
               ELSE IF pc = "phase2" THEN QuotaOfConfig + 2 + ti
               ELSE 3 * QuotaOfConfig + 3)

\* C28: every step of a run moves it strictly forward on a scale that ends at
\* EndOfRun, where the run has returned or raised and takes no further step,
\* so every run ends after at most EndOfRun steps.  A step invokes a pipeline
\* at most max_attempts times for its task (exactly once when the model's
\* policy disables retries) and only for a task not invoked before; a group
\* builds at most one generation pipeline per task and one judge pipeline, is
\* released at most once by each role, and gi never goes back.
C28_RunTerminates ==
    [][/\ Progression' > Progression
       /\ Progression' <= EndOfRun
       /\ ~Finished
       /\ gi' >= gi
       /\ \A g \in Groups :
             /\ calls'[g].gen_build <= QuotaOfConfig
             /\ calls'[g].judge_build <= 1
             /\ calls'[g].gen_unload <= 1
             /\ calls'[g].judge_unload <= 1
             /\ calls'[g] # calls[g] => g = gi
       /\ \A t \in TaskIds :
             /\ gen_invoked'[t] # gen_invoked[t] =>
                   /\ gen_invoked[t] = 0
                   /\ gen_invoked'[t] >= 1
                   /\ gen_invoked'[t] <= InvocationLimit(cfg.model_name)
             /\ judge_invoked'[t] # judge_invoked[t] =>
                   /\ judge_invoked[t] = 0
                   /\ judge_invoked'[t] >= 1
                   /\ judge_invoked'[t] <= InvocationLimit(cfg.judge_model)
      ]_vars

\* C28 witness: a run of two groups has returned; a call with retries disabled
\* was made once and a retried call twice
C28_Witness ==
    /\ pc = "returned"
    /\ err = ""
    /\ gi = 3
    /\ InvocationLimit(cfg.model_name) = 1
    /\ InvocationLimit(cfg.judge_model) = 2
    /\ gen_invoked[<<1, 1>>] = 1
    /\ judge_invoked[<<1, 1>>] = 2
    /\ judge_invoked[<<2, 1>>] = 1

\* the name of the call contains none of the provider family names
Unmatched(model_name) ==
    \A provider \in {"Ollama", "Groq", "GitHub", "Gemini"} : provider \notin model_name

\* C20 as claimed: for a model name that contains no provider family name, and
\* whatever the policy table holds, the policy returned has retries disabled
\* and no retry wrapper is built.
C20_UnmatchedNeverRetried ==
    (call.state \in {"resolved", "returned", "raised"} /\ Unmatched(call.model_name)) =>
        /\ ~RetryEnabled(call.policy)
        /\ ~call.retryer.built

\* C20 amended: for a model name that contains no provider family name the
\* policy returned is the table's "default" entry when the table has one, and
\* only otherwise the built-in policy with retries disabled; a retry wrapper is
\* built exactly when the returned policy has enable_retry set to true.
C20_UnmatchedUsesDefaultEntry ==
    (call.state \in {"resolved", "returned", "raised"} /\ Unmatched(call.model_name)) =>
        /\ "default" \in DOMAIN MODEL_CONFIG => call.policy = MODEL_CONFIG["default"]
        /\ "default" \notin DOMAIN MODEL_CONFIG => call.policy = [enable_retry |-> FALSE]
        /\ call.retryer.built <=> RetryEnabled(call.policy)

\* C20 witness: the table's default entry enables retries and a name without
\* a provider family got a retry wrapper
C20_Witness ==
    /\ call.state = "resolved"
    /\ call.model_name = {"GPT-4"}
    /\ "default" \in DOMAIN MODEL_CONFIG
    /\ RetryEnabled(MODEL_CONFIG["default"])
    /\ call.retryer.built

\* the first provider family, in the order Ollama, Groq, GitHub, Gemini, whose
\* name occurs in the model name
FamilyOf(model_name) ==
    IF "Ollama" \in model_name THEN "Ollama"
    ELSE IF "Groq" \in model_name THEN "Groq"
    ELSE IF "GitHub" \in model_name THEN "GitHub"
    ELSE "Gemini"

\* C29: for a model name in which a provider family name occurs, the policy
\* returned is the table record of the first such family in the order Ollama,
\* Groq, GitHub, Gemini; when the table has no record for that family it is
\* the table's default record, and when the table has none either, the policy
\* with retries disabled.
C29_FirstFamilyWins ==
    (call.state \in {"resolved", "returned", "raised"} /\ ~Unmatched(call.model_name)) =>
        call.policy =
            (IF FamilyOf(call.model_name) \in DOMAIN MODEL_CONFIG
             THEN MODEL_CONFIG[FamilyOf(call.model_name)]
             ELSE IF "default" \in DOMAIN MODEL_CONFIG
             THEN MODEL_CONFIG["default"]
             ELSE [enable_retry |-> FALSE])

\* C29 witness: a name with both Ollama and Groq in it got the Ollama record
\* of a table whose Groq record differs
C29_Witness ==
    /\ call.state = "resolved"
    /\ call.model_name = {"Ollama", "Groq"}
    /\ {"Ollama", "Groq", "default"} \subseteq DOMAIN MODEL_CONFIG
    /\ MODEL_CONFIG["Ollama"] # MODEL_CONFIG["Groq"]
    /\ MODEL_CONFIG["Ollama"] # MODEL_CONFIG["default"]
    /\ call.policy = MODEL_CONFIG["Ollama"]

Returns == health.at # "returned" /\ health'.at = "returned"

\* C30: the call of ensure_ollama_reachable starts at most one process and
\* polls at most 10 times, and it returns a boolean: TRUE with no process
\* started and no poll made when the health check succeeds at once; TRUE at
\* the first poll that succeeds; FALSE when the executable is missing (or the
\* process cannot be spawned) and when all 10 polls have failed.  The run
\* leaves its start only when the call has returned, and on FALSE it returns
\* an empty list with nothing loaded, built, generated, judged or released.
C30_HealthCheckIsBounded ==
    [][/\ health'.started <= 1
       /\ health'.polls <= 10
       /\ health'.result \in BOOLEAN
       /\ Returns =>
             /\ health'.result = ensure_ollama_reachable(server)
             /\ server.first = "200" =>
                   (health'.result /\ health'.started = 0 /\ health'.polls = 0)
             /\ (health'.result /\ health'.polls = 0) =>
                   (health'.started = 0 /\ "200" \in {server.first, server.second})
             /\ (health'.result /\ health'.polls > 0) =>
                   /\ health'.started = 1
                   /\ health'.polls = server.up_at
             /\ ~health'.result =>
                   \/ health'.started = 0 /\ health'.polls = 0
                         /\ (~server.has_exe \/ ~server.popen_ok)
                   \/ health'.started = 1 /\ health'.polls = 10
                         /\ server.up_at > 10
       /\ (pc = "start" /\ pc' # "start" /\ (LocalGenerator \/ LocalJudge)) =>
             /\ health.at = "returned"
             /\ ~health.result =>
                   /\ pc' = "returned"
                   /\ results' = <<>>
                   /\ fi' = 1 /\ raw_docs' = 0
                   /\ NothingDone'
      ]_vars

\* C30 witness: the server was started and answered at the tenth poll only
C30_Witness ==
    /\ health.at = "returned"
    /\ health.result
    /\ health.started = 1
    /\ health.polls = 10
    /\ server.first = "ConnectionError"
    /\ LocalJudge
    /\ ~LocalGenerator

C34_ReleaseEvictsWhatWasLoaded ==
    (release.at = "released" /\ release.target # ""
        /\ "Ollama" \in release.model_name) =>
            release.evicted = release.target

\* C32: once the grid is defined the step counter stays within 0 and
\* total_steps, and it equals total_steps when a run that passed its startup
\* checks has returned.
C32_StepCounterInRange ==
    (pc # "start" /\ err # "ollama_unreachable") =>
        /\ 0 <= current_step
        /\ current_step <= total_steps
        /\ (pc = "returned" /\ PassedStartup) => current_step = total_steps

\* C33: when Phase 1 of a group has ended, generation_results holds exactly
\* one outcome for every task of the group's task list, in the order of the
\* list.
C33_OneOutcomePerTask ==
    pc \in {"unload_gen", "phase2_init", "phase2", "unload_judge"} =>
        /\ Len(generation_results) = Len(tasks)
        /\ \A i \in 1..Len(generation_results) :
              generation_results[i].task = tasks[Min(i, Len(tasks))]

\* C35: the judge pipeline of a group is built at most once, by the step that
\* follows the generator's release (made, when the generator is local) and
\* only when every task of the group has its generation outcome and none was
\* judged; that step builds it whatever the outcomes are, also when no
\* generation succeeded; no task is judged before it is built; and a group
\* whose task list was built is left with exactly one judge pipeline built.
C35_JudgeBuiltOncePerGroup ==
    [][\A g \in Groups :
        /\ calls'[g].judge_build <= 1
        /\ calls'[g].judge_build > calls[g].judge_build =>
              /\ gi = g
              /\ pc = "phase2_init"
              /\ LocalGenerator => calls[g].gen_unload = 1
              /\ \A t \in GroupTasks(g) :
                    gen_outcomes[t] # <<>> /\ judge_invoked[t] = 0
        /\ (gi = g /\ pc = "unload_gen") => calls'[g].judge_build = 0
        /\ (gi = g /\ pc = "phase2_init" /\ err' # "status_sink") =>
              calls'[g].judge_build = 1
        /\ (\E t \in GroupTasks(g) : judge_invoked'[t] > judge_invoked[t]) =>
              calls[g].judge_build = 1
        /\ (gi = g /\ gi' = g + 1 /\ ~GroupSkipped(g)') =>
              calls'[g].judge_build = 1
      ]_vars

\* C35 witness: no generation of the first group succeeded, its generator was
\* released, its judge pipeline was built once and the run is at the next pair
C35_Witness ==
    /\ 2 \in Groups
    /\ gi = 2
    /\ \A t \in GroupTasks(1) : GenerationFailed(t)
    /\ calls[1].gen_unload = 1
    /\ calls[1].judge_build = 1

\* C36: for a group that was skipped, as an invalid pair or because its split
\* or index build failed, no generation or judge pipeline is built, no task is
\* generated or judged, and neither the generator nor the judge is released;
\* a release is made only for a group that was not skipped, whose index was
\* built (when there are documents) and whose task list was built.
C36_SkippedGroupTouchesNothing ==
    \A g \in Groups :
        /\ (GroupSkipped(g) \/ PairIsInvalid(g)) =>
              /\ calls[g].gen_build = 0
              /\ calls[g].judge_build = 0
              /\ calls[g].gen_unload = 0
              /\ calls[g].judge_unload = 0
              /\ calls[g].bound = {}
              /\ \A t \in GroupTasks(g) :
                    /\ gen_invoked[t] = 0
                    /\ judge_invoked[t] = 0
                    /\ gen_outcomes[t] = <<>>
        /\ (calls[g].gen_unload > 0 \/ calls[g].judge_unload > 0) =>
              /\ ~GroupSkipped(g)
              /\ ~PairIsInvalid(g)
              /\ cfg.file_paths > 0 => calls[g].build = 1
              /\ gi >= g
              /\ gi = g =>
                    /\ Len(tasks) = QuotaOfConfig
                    /\ \A i \in 1..Len(tasks) : tasks[i].g = g

\* C36 witness: the index build of the first group failed and nothing was
\* released for it; the second group was processed and both models released
C36_Witness ==
    /\ 2 \in Groups
    /\ IngestionFailed(1)
    /\ calls[1].build = 1
    /\ calls[1].gen_unload = 0
    /\ calls[1].judge_unload = 0
    /\ calls[2].gen_unload = 1
    /\ calls[2].judge_unload = 1
    /\ pc = "returned"

\* C37: when one of the supplied documents fails to load, or the documents
\* loaded hold no text unit at all, the run has returned an empty list and
\* nothing was split, built, generated, judged or released, whatever the
\* other documents gave; and a run with documents comes to its first pair
\* only when every document was loaded and there is at least one text unit.
C37_LoadIsAllOrNothing ==
    /\ err \in {"load_failed", "no_documents"} =>
          /\ pc = "returned"
          /\ results = <<>>
          /\ NothingDone
          /\ gi = 1
          /\ tasks = <<>>
          /\ loaded = {}
    /\ (cfg.file_paths > 0 /\ pc \notin {"start", "load"}
            /\ err \notin StartupErrors) =>
          /\ fi = cfg.file_paths + 1
          /\ raw_docs >= 1
    /\ (cfg.file_paths > 0 /\ (~NothingDone \/ results # <<>>)) =>
          /\ fi = cfg.file_paths + 1
          /\ raw_docs >= 1
          /\ err \notin StartupErrors

\* C37 witness: of two documents the first gave text units and the second
\* failed to load: the run has returned with nothing done
C37_Witness ==
    /\ cfg.file_paths = 2
    /\ raw_docs = 1
    /\ fi = 3
    /\ err = "load_failed"
    /\ pc = "returned"
    /\ results = <<>>
    /\ NothingDone

\* C38: every generation call and every judge call has the whole budget of
\* its model's policy, whatever the calls before it have used: a call that met
\* a transient failure at every attempt allowed has made exactly max_attempts
\* invocations, and no call makes more than its policy allows (one when the
\* policy disables retries).
C38_RetryBudgetIsPerCall ==
    \A t \in TaskIds :
        /\ "gen" \in gave_up[t] => gen_invoked[t] = AttemptsAllowed(cfg.model_name)
        /\ "judge" \in gave_up[t] =>
              judge_invoked[t] = AttemptsAllowed(cfg.judge_model)
        /\ gen_invoked[t] <= InvocationLimit(cfg.model_name)
        /\ judge_invoked[t] <= InvocationLimit(cfg.judge_model)

\* C38 witness: the generation call of the first task of a group used up its
\* two attempts, and the call of the second task still had two: it succeeded
\* at its second attempt and the task was judged
C38_Witness ==
    \E g \in Groups :
        /\ <<g, 2>> \in TaskIds
        /\ AttemptsAllowed(cfg.model_name) = 2
        /\ "gen" \in gave_up[<<g, 1>>]
        /\ gen_invoked[<<g, 1>>] = 2
        /\ gen_invoked[<<g, 2>>] = 2
        /\ GenerationSucceeded(<<g, 2>>)
        /\ judge_invoked[<<g, 2>>] = 1
        /\ HasRecord(<<g, 2>>)

\* C39: whatever the pipeline does (it answers, answers after transient
\* failures, fails with another error, fails at every attempt allowed, or
\* gives a response without answer or context or that is no dict),
\* _run_generation and _run_judging return and do not raise; the outcome has
\* a boolean  successful , with answer, context and latency (score and
\* latency) when it is true and with the error text when it is false; it is
\* true exactly when the call got a response (for a generation: a response
\* with answer and context).
C39_OutcomeNeverRaises ==
    (call.role \in {"generation", "judging"} /\ call.result # NoResult) =>
        /\ call.result.raised = ""
        /\ call.result.returned
        /\ call.result.successful \in BOOLEAN
        /\ call.result.successful =>
              call.result.keys =
                  (IF call.role = "generation"
                   THEN {"successful", "answer", "context", "latency_rag"}
                   ELSE {"successful", "score", "latency_judge"})
        /\ ~call.result.successful => call.result.keys = {"successful", "error"}
        /\ call.result.successful <=>
              /\ call.state = "returned"
              /\ call.role = "generation" => call.outcome = "ok"

\* C39 witness: a generation pipeline failed once with a transient error and
\* then gave a response without an answer; the failed outcome was returned
C39_Witness ==
    /\ call.role = "generation"
    /\ call.script = <<"RateLimitError", "no_answer">>
    /\ call.invocations = 2
    /\ call.state = "returned"
    /\ call.result.returned
    /\ ~call.result.successful
    /\ call.result.keys = {"successful", "error"}

====
